---- MODULE Spec2Model ----
(***************************************************************************)
(* Tree-walking Lox interpreter (src/walk_tree): resolver, environment     *)
(* chain, object model and evaluator.  A run takes a parsed program,       *)
(* resolves it (Resolver::resolve) and then executes its top-level         *)
(* statements one by one (Interpreter::interpret), as the interpreter's    *)
(* own test harness does.  Numbers are restricted to integers.             *)
(* A second machine is the driver (Lox::run) on a source text: the scanner *)
(* yields the tokens, Parser::parse builds the tree, and the tree is       *)
(* interpreted when no diagnostic was reported.  A third machine is the    *)
(* prompt (Lox::run_interactively): each submitted line is tried as an     *)
(* expression and, when that reported a diagnostic, run as a program.      *)
(***************************************************************************)
EXTENDS Integers, Sequences, FiniteSets, TLC

\* ------------------------------------------------------------------ bounds
\* largest parameter / argument count of the generated call programs
MaxArity == 2
\* number of times the generated programs repeat a call (each closure of a
\* CounterProgram, showA before and after the declaration in a ResolvingProgram)
MaxCalls == 2
\* number of method bindings taken by a BindProgram
MaxBinds == 3
\* largest start value passed to the counting function of ReturnProgram
MaxStart == 4
\* largest length of the source texts generated over SourceAlphabet
MaxSourceLen == 3
\* number of lines submitted to the prompt in one session
MaxSubmissions == 3

\* ------------------------------------------------------------------ values
\* value.rs: Cell(Option<Value>); one record shape for every variant
Nil == [t |-> "nil", n |-> 0, s |-> ""]
Bool(b) == [t |-> "bool", n |-> IF b THEN 1 ELSE 0, s |-> ""]
Num(n) == [t |-> "num", n |-> n, s |-> ""]
Str(s) == [t |-> "str", n |-> 0, s |-> s]
\* Value::Function holding a user function (index into functions)
FunctionV(ref) == [t |-> "function", n |-> ref, s |-> ""]
\* Value::Function holding a native function object
NativeV(name) == [t |-> "function", n |-> 0, s |-> name]
ClassV(ref) == [t |-> "class", n |-> ref, s |-> ""]
InstanceV(ref) == [t |-> "instance", n |-> ref, s |-> ""]

is_truthy(v) == IF v.t = "nil" THEN FALSE ELSE IF v.t = "bool" THEN v.n = 1 ELSE TRUE
is_number(v) == v.t = "num"
is_string(v) == v.t = "str"
is_class(v) == v.t = "class"

Digits == <<"0", "1", "2", "3", "4", "5", "6", "7", "8", "9">>

RECURSIVE NatToStr(_)
NatToStr(n) == IF n < 10 THEN Digits[n + 1] ELSE NatToStr(n \div 10) \o Digits[(n % 10) + 1]

\* "{}" formatting of an integral number
NumToStr(n) == IF n < 0 THEN "-" \o NatToStr(-n) ELSE NatToStr(n)

\* ------------------------------------------------------------------ maps
EmptyMap == [x \in {} |-> Nil]
Put(m, k, v) == [x \in (DOMAIN m) \cup {k} |-> IF x = k THEN v ELSE m[x]]

\* ------------------------------------------------------------------ results
\* Result<Cell, RuntimeError>, Result<(), ControlFlow>, and a Rust panic
Ok(st, v) == [kind |-> "ok", val |-> v, err |-> "", st |-> st]
Err(st, msg) == [kind |-> "err", val |-> Nil, err |-> msg, st |-> st]
Return(st, v) == [kind |-> "return", val |-> v, err |-> "", st |-> st]
Panic(st, msg) == [kind |-> "panic", val |-> Nil, err |-> msg, st |-> st]

\* the ? operator: a result that is not Ok leaves the enclosing function
\* at once, otherwise the rest of the function (K) goes on with it
Try(r, K(_)) == IF r.kind # "ok" THEN r ELSE K(r)

\* ------------------------------------------------------------------ environment.rs
new_env(st, enclosing) ==
    [st EXCEPT !.envs = Append(@, [enclosing |-> enclosing, values |-> EmptyMap])]

define(st, env, name, value) ==
    [st EXCEPT !.envs[env].values = Put(@, name, value)]

RECURSIVE Environment_get(_, _, _)
Environment_get(st, env, name) ==
    IF name \in DOMAIN st.envs[env].values THEN Ok(st, st.envs[env].values[name])
    ELSE IF st.envs[env].enclosing # 0 THEN Environment_get(st, st.envs[env].enclosing, name)
    ELSE Err(st, "Undefined variable '" \o name \o "'.")

\* 0 when the chain is shorter than distance (expect("Environment exists") fails)
RECURSIVE ancestor(_, _, _)
ancestor(st, env, distance) ==
    IF distance = 0 THEN env
    ELSE IF st.envs[env].enclosing = 0 THEN 0
    ELSE ancestor(st, st.envs[env].enclosing, distance - 1)

get_at(st, env, distance, name) ==
    LET a == ancestor(st, env, distance) IN
    IF a = 0 THEN Panic(st, "Environment exists")
    ELSE IF name \notin DOMAIN st.envs[a].values THEN Panic(st, "key not found")
    ELSE Ok(st, st.envs[a].values[name])

RECURSIVE Environment_assign(_, _, _, _)
Environment_assign(st, env, name, value) ==
    IF name \in DOMAIN st.envs[env].values THEN Ok(define(st, env, name, value), Nil)
    ELSE IF st.envs[env].enclosing # 0
         THEN Environment_assign(st, st.envs[env].enclosing, name, value)
    ELSE Err(st, "Undefined variable '" \o name \o "'.")

\* assing_at acting on the nearest frame that binds the name
assing_at_nearest(st, env, distance, name, value) ==
    Environment_assign(st, env, name, value)

assing_at(st, env, distance, name, value) ==
    LET a == ancestor(st, env, distance) IN
    IF a = 0 THEN Panic(st, "Environment exists")
    ELSE Ok(define(st, a, name, value), Nil)

\* ------------------------------------------------------------------ history
\* trace records, in order, every statement execution ("exec"), every
\* completed return statement ("return"), and every entry into and exit from
\* Function::call ("enter" / "exit"); depth counts the active Function::call
\* activations.  Neither is read by the interpreter.
Event(ev, depth, how, val) == [ev |-> ev, depth |-> depth, how |-> how, val |-> val]
Log(st, e) == [st EXCEPT !.trace = Append(@, e)]

\* ------------------------------------------------------------------ value.rs
\* impl Display for Cell
Display(st, v) ==
    CASE v.t = "nil" -> "nil"
      [] v.t = "bool" -> IF v.n = 1 THEN "true" ELSE "false"
      [] v.t = "num" -> NumToStr(v.n)
      [] v.t = "str" -> v.s
      [] v.t = "function" -> "<function@" \o v.s \o NatToStr(v.n) \o ">"
      [] v.t = "class" -> st.classes[v.n].name
      [] v.t = "instance" -> st.classes[st.instances[v.n].class].name \o " instance"

\* impl PartialEq for Value, under the derived PartialEq of Cell(Option<Value>)
value_eq(left, right) ==
    CASE left.t = "nil" /\ right.t = "nil" -> TRUE
      [] left.t = "bool" /\ right.t = "bool" -> left.n = right.n
      [] left.t = "num" /\ right.t = "num" -> left.n = right.n
      [] left.t = "str" /\ right.t = "str" -> left.s = right.s
      [] left.t = "function" /\ right.t = "function" -> left.n = right.n /\ left.s = right.s
      [] OTHER -> FALSE

\* ------------------------------------------------------------------ function.rs
\* Function::new: allocate a function object
Function_new(st, decl, closure, is_initializer) ==
    [st EXCEPT !.functions =
        Append(@, [decl |-> decl, closure |-> closure, is_initializer |-> is_initializer])]

\* bind that puts `this` into the method's defining environment
bind_in_defining_environment(st, f, instance) ==
    LET fn == st.functions[f]
        st1 == define(st, fn.closure, "this", InstanceV(instance))
    IN Function_new(st1, fn.decl, fn.closure, fn.is_initializer)

\* Function::bind; the bound function is the last element of functions
bind(st, f, instance) ==
    LET fn == st.functions[f]
        st1 == new_env(st, fn.closure)
        environment == Len(st1.envs)
        st2 == define(st1, environment, "this", InstanceV(instance))
    IN Function_new(st2, fn.decl, environment, fn.is_initializer)

Function_arity(st, f) == Len(st.functions[f].decl.parameters)

RECURSIVE define_parameters(_, _, _, _, _)
define_parameters(st, environment, parameters, arguments, i) ==
    IF i > Len(parameters) THEN st
    ELSE define_parameters(define(st, environment, parameters[i], arguments[i]),
                           environment, parameters, arguments, i + 1)

\* ------------------------------------------------------------------ class.rs
\* Class::find_method: 0 when absent
RECURSIVE find_method(_, _, _)
find_method(st, class, name) ==
    IF name \in DOMAIN st.classes[class].methods THEN st.classes[class].methods[name]
    ELSE IF st.classes[class].superclass # 0
         THEN find_method(st, st.classes[class].superclass, name)
    ELSE 0

Class_arity(st, class) ==
    LET initializer == find_method(st, class, "init") IN
    IF initializer # 0 THEN Function_arity(st, initializer) ELSE 0

Instance_new(st, class) ==
    [st EXCEPT !.instances = Append(@, [class |-> class, fields |-> EmptyMap])]

\* Instance::get that looks at the methods before the fields
Instance_get_method_first(st, instance, name) ==
    LET inst == st.instances[instance]
        method == find_method(st, inst.class, name)
    IN IF method # 0
       THEN LET st1 == bind(st, method, instance) IN Ok(st1, FunctionV(Len(st1.functions)))
       ELSE IF name \in DOMAIN inst.fields THEN Ok(st, inst.fields[name])
       ELSE Err(st, "Undefined property '" \o name \o "'.")

Instance_get(st, instance, name) ==
    LET inst == st.instances[instance]
        method == find_method(st, inst.class, name)
    IN IF name \in DOMAIN inst.fields THEN Ok(st, inst.fields[name])
       ELSE IF method # 0
            THEN LET st1 == bind(st, method, instance) IN Ok(st1, FunctionV(Len(st1.functions)))
       ELSE Err(st, "Undefined property '" \o name \o "'.")

Instance_set(st, instance, name, value) ==
    [st EXCEPT !.instances[instance].fields = Put(@, name, value)]

\* ------------------------------------------------------------------ native.rs
Native_arity(name) == IF name = "print" THEN 1 ELSE 0

\* Print::call writes the displayed argument and a newline; Clock::call
\* returns a time reading (abstracted to 0)
Native_call(st, name, arguments) ==
    IF name = "print"
    THEN Ok([st EXCEPT !.output = Append(@, Display(st, arguments[1]))], Nil)
    ELSE Ok(st, Num(0))

\* dyn Callable::arity
arity(st, callee) ==
    IF callee.t = "class" THEN Class_arity(st, callee.n)
    ELSE IF callee.n = 0 THEN Native_arity(callee.s)
    ELSE Function_arity(st, callee.n)

\* ------------------------------------------------------------------ interpreter.rs
RECURSIVE evaluate(_, _, _), execute(_, _, _), execute_block(_, _, _)
RECURSIVE evaluate_exprs(_, _, _), Callable_call(_, _, _), execute_while_stmt(_, _, _, _)

\* look_up_variable that searches the frame chain by name from the current frame
look_up_variable_by_name(st, name, id, env) == Environment_get(st, env, name)

\* Interpreter::look_up_variable; id is the expression's identity (*const Expr)
look_up_variable(st, name, id, env) ==
    IF id \in DOMAIN st.locals THEN get_at(st, env, st.locals[id], name)
    ELSE Environment_get(st, 1, name)

check_number_operands(left, right) == is_number(left) /\ is_number(right)

\* the match on operator.kind of evaluate_binary, operands already evaluated
binary_op(st, operator, left, right) ==
    CASE operator = "+" ->
            IF is_number(left) /\ is_number(right) THEN Ok(st, Num(left.n + right.n))
            ELSE IF is_string(left) /\ is_string(right) THEN Ok(st, Str(left.s \o right.s))
            ELSE Err(st, "Operands must be two numbers or two string.")
      [] operator \in {"-", "*", ">", ">=", "<", "<="} ->
            IF ~check_number_operands(left, right) THEN Err(st, "Operand must be numbers.")
            ELSE (CASE operator = "-" -> Ok(st, Num(left.n - right.n))
                    [] operator = "*" -> Ok(st, Num(left.n * right.n))
                    [] operator = ">" -> Ok(st, Bool(left.n > right.n))
                    [] operator = ">=" -> Ok(st, Bool(left.n >= right.n))
                    [] operator = "<" -> Ok(st, Bool(left.n < right.n))
                    [] operator = "<=" -> Ok(st, Bool(left.n <= right.n)))
      [] operator = "!=" -> Ok(st, Bool(~value_eq(left, right)))
      [] operator = "==" -> Ok(st, Bool(value_eq(left, right)))

evaluate_binary(st, left, operator, right, env) ==
    Try(evaluate(st, left, env), LAMBDA l :
    Try(evaluate(l.st, right, env), LAMBDA r :
    binary_op(r.st, operator, l.val, r.val)))

\* call_value with the arity test weakened to "enough arguments"
call_value_at_least(st, callee, arguments) ==
    IF callee.t \notin {"function", "class"}
    THEN Err(st, "Can only call functions and classes.")
    ELSE IF Len(arguments) < arity(st, callee)
    THEN Err(st, "Expected " \o NatToStr(arity(st, callee)) \o " arguments but got "
                 \o NatToStr(Len(arguments)) \o ".")
    ELSE Callable_call(st, callee, arguments)

\* the part of evaluate_call after callee and arguments have been evaluated
call_value(st, callee, arguments) ==
    IF callee.t \notin {"function", "class"}
    THEN Err(st, "Can only call functions and classes.")
    ELSE IF Len(arguments) # arity(st, callee)
    THEN Err(st, "Expected " \o NatToStr(arity(st, callee)) \o " arguments but got "
                 \o NatToStr(Len(arguments)) \o ".")
    ELSE Callable_call(st, callee, arguments)

evaluate_call(st, callee, arguments, env) ==
    Try(evaluate(st, callee, env), LAMBDA c :
    Try(evaluate_exprs(c.st, arguments, env), LAMBDA a :
    call_value(a.st, c.val, a.val)))

evaluate_exprs(st, exprs, env) ==
    IF exprs = <<>> THEN [kind |-> "ok", val |-> <<>>, err |-> "", st |-> st]
    ELSE Try(evaluate(st, Head(exprs), env), LAMBDA r :
         Try(evaluate_exprs(r.st, Tail(exprs), env), LAMBDA rest :
         [kind |-> "ok", val |-> <<r.val>> \o rest.val, err |-> "", st |-> rest.st]))

evaluate_assign_expr(st, id, name, value, env) ==
    Try(evaluate(st, value, env), LAMBDA v :
    IF id \in DOMAIN v.st.locals
    THEN Try(assing_at(v.st, env, v.st.locals[id], name, v.val), LAMBDA a : Ok(a.st, v.val))
    ELSE Try(Environment_assign(v.st, 1, name, v.val), LAMBDA a : Ok(a.st, v.val)))

evaluate_get_expr(st, object, name, env) ==
    Try(evaluate(st, object, env), LAMBDA o :
    IF o.val.t # "instance" THEN Err(o.st, "Only instances have properties.")
    ELSE Instance_get(o.st, o.val.n, name))

evaluate_set_expr(st, object, name, value, env) ==
    Try(evaluate(st, object, env), LAMBDA o :
    IF o.val.t # "instance" THEN Err(o.st, "Only instances have properties.")
    ELSE Try(evaluate(o.st, value, env), LAMBDA v :
         Ok(Instance_set(v.st, o.val.n, name, v.val), v.val)))

\* evaluate_super_expr that starts at the superclass of the receiver's class
evaluate_super_expr_dynamic(st, id, method, env) ==
    IF id \notin DOMAIN st.locals THEN Panic(st, "unwrap on None") ELSE
    LET object == get_at(st, env, st.locals[id] - 1, "this")
        superclass == st.classes[st.instances[object.val.n].class].superclass
        m == find_method(st, superclass, method)
        st1 == bind(st, m, object.val.n)
    IN IF m = 0 THEN Err(st, "Undefined property '" \o method \o "'.")
       ELSE Ok(st1, FunctionV(Len(st1.functions)))

evaluate_super_expr(st, id, method, env) ==
    IF id \notin DOMAIN st.locals THEN Panic(st, "unwrap on None") ELSE
    LET distance == st.locals[id]
        superclass == get_at(st, env, distance, "super")
    IN IF superclass.kind # "ok" THEN superclass
       ELSE IF superclass.val.t # "class" THEN Panic(st, "unwrap on None")
       ELSE IF distance = 0 THEN Panic(st, "attempt to subtract with overflow")
       ELSE LET object == get_at(st, env, distance - 1, "this") IN
            IF object.kind # "ok" THEN object
            ELSE IF object.val.t # "instance" THEN Panic(st, "unwrap on None")
            ELSE LET m == find_method(st, superclass.val.n, method) IN
                 IF m = 0 THEN Err(st, "Undefined property '" \o method \o "'.")
                 ELSE LET st1 == bind(st, m, object.val.n) IN
                      Ok(st1, FunctionV(Len(st1.functions)))

evaluate_unary(st, operator, operand, env) ==
    Try(evaluate(st, operand, env), LAMBDA right :
    IF operator = "-"
    THEN IF is_number(right.val) THEN Ok(right.st, Num(-right.val.n))
         ELSE Err(right.st, "Operand must be a number.")
    ELSE Ok(right.st, Bool(~is_truthy(right.val))))

\* evaluate_logical that evaluates both operands before it looks at the left one
evaluate_logical_eager(st, left, operator, right, env) ==
    Try(evaluate(st, left, env), LAMBDA l :
    Try(evaluate(l.st, right, env), LAMBDA r :
    IF operator = "or" /\ is_truthy(l.val) THEN Ok(r.st, l.val)
    ELSE IF operator = "and" /\ ~is_truthy(l.val) THEN Ok(r.st, l.val)
    ELSE r))

evaluate_logical(st, left, operator, right, env) ==
    Try(evaluate(st, left, env), LAMBDA l :
    IF operator = "or" /\ is_truthy(l.val) THEN l
    ELSE IF operator = "and" /\ ~is_truthy(l.val) THEN l
    ELSE evaluate(l.st, right, env))

evaluate_ternary(st, condition, then_expr, else_expr, env) ==
    Try(evaluate(st, condition, env), LAMBDA c :
    IF is_truthy(c.val) THEN evaluate(c.st, then_expr, env)
    ELSE evaluate(c.st, else_expr, env))

evaluate(st, expr, env) ==
    CASE expr.k = "Literal" -> Ok(st, expr.value)
      [] expr.k = "Grouping" -> evaluate(st, expr.expr, env)
      [] expr.k = "Unary" -> evaluate_unary(st, expr.operator, expr.operand, env)
      [] expr.k = "Logical" -> evaluate_logical(st, expr.left, expr.operator, expr.right, env)
      [] expr.k = "Ternary" ->
            evaluate_ternary(st, expr.condition, expr.then_expr, expr.else_expr, env)
      [] expr.k = "Binary" -> evaluate_binary(st, expr.left, expr.operator, expr.right, env)
      [] expr.k = "Function" ->
            LET st1 == Function_new(st, expr.function, env, FALSE) IN
            Ok(st1, FunctionV(Len(st1.functions)))
      [] expr.k = "Call" -> evaluate_call(st, expr.callee, expr.arguments, env)
      [] expr.k = "Variable" -> look_up_variable(st, expr.name, expr.id, env)
      [] expr.k = "Assignment" -> evaluate_assign_expr(st, expr.id, expr.name, expr.value, env)
      [] expr.k = "Get" -> evaluate_get_expr(st, expr.object, expr.name, env)
      [] expr.k = "Set" -> evaluate_set_expr(st, expr.object, expr.name, expr.value, env)
      [] expr.k = "This" -> look_up_variable(st, "this", expr.id, env)
      [] expr.k = "Super" -> evaluate_super_expr(st, expr.id, expr.method, env)

\* execute_block_stmt that runs the block in the current frame
execute_block_stmt_same_frame(st, statements, env) == execute_block(st, statements, env)

execute_block_stmt(st, statements, env) ==
    LET st1 == new_env(st, env) IN execute_block(st1, statements, Len(st1.envs))

execute_expression_stmt(st, expr, env) ==
    Try(evaluate(st, expr, env), LAMBDA r : Ok(r.st, Nil))

execute_if_stmt(st, condition, then_branch, else_branch, env) ==
    Try(evaluate(st, condition, env), LAMBDA c :
    IF is_truthy(c.val) THEN execute(c.st, then_branch, env)
    ELSE IF else_branch # <<>> THEN execute(c.st, else_branch[1], env)
    ELSE Ok(c.st, Nil))

execute_return_stmt(st, expr, env) ==
    Try(IF expr # <<>> THEN evaluate(st, expr[1], env) ELSE Ok(st, Nil), LAMBDA value :
    Return(Log(value.st, Event("return", value.st.depth, "", value.val)), value.val))

execute_var_stmt(st, name, initializer, env) ==
    Try(IF initializer # <<>> THEN evaluate(st, initializer[1], env) ELSE Ok(st, Nil),
        LAMBDA value : Ok(define(value.st, env, name, value.val), Nil))

execute_while_stmt(st, condition, body, env) ==
    Try(evaluate(st, condition, env), LAMBDA c :
    IF ~is_truthy(c.val) THEN Ok(c.st, Nil)
    ELSE Try(execute(c.st, body, env), LAMBDA b :
         execute_while_stmt(b.st, condition, body, env)))

evaluate_superclass(st, expr, env) ==
    Try(evaluate(st, expr, env), LAMBDA superclass :
    IF is_class(superclass.val) THEN superclass
    ELSE Err(superclass.st, "Superclass must be a class."))

evaluate_method_environment(st, superclass, env) ==
    IF superclass # 0
    THEN LET st1 == new_env(st, env) IN define(st1, Len(st1.envs), "super", ClassV(superclass))
    ELSE st

\* the map/collect of execute_class_stmt: one Function::new per method
\* expression, in order; res.methods is the resulting HashMap
RECURSIVE collect_methods(_, _, _, _)
collect_methods(st, method_exprs, method_env, methods) ==
    IF method_exprs = <<>> THEN [st |-> st, methods |-> methods]
    ELSE LET method == Head(method_exprs)
             st1 == Function_new(st, method, method_env, method.name[1] = "init")
         IN collect_methods(st1, Tail(method_exprs), method_env,
                            Put(methods, method.name[1], Len(st1.functions)))

execute_class_stmt(st, name, superclass_expr, method_exprs, env) ==
    Try(IF superclass_expr # <<>> THEN evaluate_superclass(st, superclass_expr[1], env)
        ELSE Ok(st, Nil), LAMBDA sc :
       LET superclass == IF superclass_expr # <<>> THEN sc.val.n ELSE 0
           st1 == define(sc.st, env, name, Nil)
           st2 == evaluate_method_environment(st1, superclass, env)
           method_env == IF superclass # 0 THEN Len(st2.envs) ELSE env
           ms == collect_methods(st2, method_exprs, method_env, EmptyMap)
           st3 == [ms.st EXCEPT !.classes =
                      Append(@, [name |-> name, superclass |-> superclass,
                                 methods |-> ms.methods])]
       IN Environment_assign(st3, env, name, ClassV(Len(st3.classes))))

execute(st0, stmt, env) ==
    LET st == Log(st0, Event("exec", st0.depth, stmt.k, Nil)) IN
    CASE stmt.k = "Block" -> execute_block_stmt(st, stmt.stmts, env)
      [] stmt.k = "Expr" -> execute_expression_stmt(st, stmt.expr, env)
      [] stmt.k = "If" ->
            execute_if_stmt(st, stmt.condition, stmt.then_branch, stmt.else_branch, env)
      [] stmt.k = "Return" -> execute_return_stmt(st, stmt.expr, env)
      [] stmt.k = "While" -> execute_while_stmt(st, stmt.condition, stmt.body, env)
      [] stmt.k = "VarDeclaration" -> execute_var_stmt(st, stmt.name, stmt.initializer, env)
      [] stmt.k = "Class" ->
            execute_class_stmt(st, stmt.name, stmt.superclass, stmt.methods, env)

\* execute_block that takes an early return of a nested statement for its
\* normal completion and goes on with the next statement
execute_block_swallowing_return(st, block, env) ==
    IF block = <<>> THEN Ok(st, Nil)
    ELSE LET swallow(r) == IF r.kind = "return" THEN Ok(r.st, Nil) ELSE r IN
         Try(swallow(execute(st, Head(block), env)), LAMBDA r :
         execute_block(r.st, Tail(block), env))

\* ExecutionContext::execute_block
execute_block(st, block, env) ==
    IF block = <<>> THEN Ok(st, Nil)
    ELSE Try(execute(st, Head(block), env), LAMBDA r :
         execute_block(r.st, Tail(block), env))

\* leaving Function::call at depth d with result res
Leave(res, d) ==
    [res EXCEPT !.st = [Log(res.st, Event("exit", d, res.kind, res.val)) EXCEPT !.depth = d - 1]]

\* Function::call that runs the body over a copy of the closure's frame
Function_call_copying_frame(st, f, arguments) ==
    LET fn == st.functions[f]
        st0 == [st EXCEPT !.envs = Append(@, st.envs[fn.closure])]
        st1 == new_env(st0, Len(st0.envs))
        environment == Len(st1.envs)
        st2 == define_parameters(st1, environment, fn.decl.parameters, arguments, 1)
        d == st.depth + 1
        st3 == [Log(st2, Event("enter", d, "", FunctionV(f))) EXCEPT !.depth = d]
        match_result(result) ==
            CASE result.kind = "return" ->
                    IF fn.is_initializer THEN get_at(result.st, fn.closure, 0, "this")
                    ELSE Ok(result.st, result.val)
              [] result.kind = "ok" ->
                    IF fn.is_initializer THEN get_at(result.st, fn.closure, 0, "this")
                    ELSE Ok(result.st, Nil)
              [] OTHER -> result
    IN Leave(match_result(execute_block(st3, fn.decl.body, environment)), d)

\* Function::call without the is_initializer cases
Function_call_plain_result(st, f, arguments) ==
    LET fn == st.functions[f]
        st1 == new_env(st, fn.closure)
        environment == Len(st1.envs)
        st2 == define_parameters(st1, environment, fn.decl.parameters, arguments, 1)
        d == st.depth + 1
        st3 == [Log(st2, Event("enter", d, "", FunctionV(f))) EXCEPT !.depth = d]
        match_result(result) ==
            CASE result.kind = "return" -> Ok(result.st, result.val)
              [] result.kind = "ok" -> Ok(result.st, Nil)
              [] OTHER -> result
    IN Leave(match_result(execute_block(st3, fn.decl.body, environment)), d)

\* impl Callable for Function: call
Function_call(st, f, arguments) ==
    LET fn == st.functions[f]
        st1 == new_env(st, fn.closure)
        environment == Len(st1.envs)
        st2 == define_parameters(st1, environment, fn.decl.parameters, arguments, 1)
        d == st.depth + 1
        st3 == [Log(st2, Event("enter", d, "", FunctionV(f))) EXCEPT !.depth = d]
        match_result(result) ==
            CASE result.kind = "return" ->
                    IF fn.is_initializer THEN get_at(result.st, fn.closure, 0, "this")
                    ELSE Ok(result.st, result.val)
              [] result.kind = "ok" ->
                    IF fn.is_initializer THEN get_at(result.st, fn.closure, 0, "this")
                    ELSE Ok(result.st, Nil)
              [] OTHER -> result
    IN Leave(match_result(execute_block(st3, fn.decl.body, environment)), d)

\* impl Callable for Class: call
Class_call(st, class, arguments) ==
    LET st1 == Instance_new(st, class)
        instance == Len(st1.instances)
        initializer == find_method(st1, class, "init")
    IN IF initializer # 0
       THEN LET st2 == bind(st1, initializer, instance) IN
            Try(Function_call(st2, Len(st2.functions), arguments), LAMBDA r :
            Ok(r.st, InstanceV(instance)))
       ELSE Ok(st1, InstanceV(instance))

\* dyn Callable::call
Callable_call(st, callee, arguments) ==
    IF callee.t = "class" THEN Class_call(st, callee.n, arguments)
    ELSE IF callee.n = 0 THEN Native_call(st, callee.s, arguments)
    ELSE Function_call(st, callee.n, arguments)

\* ------------------------------------------------------------------ resolver.rs
\* resolver state rs: scopes (innermost last), current_function,
\* current_class, the interpreter's locals (Resolve::resolve inserts into
\* it), and the error reporter's had_error flag and diagnostics
RECURSIVE resolve_stmt(_, _), resolve_expr(_, _), resolve_stmts(_, _), resolve_exprs(_, _)

\* ErrorReporter::token_error -> report
token_error(rs, message) ==
    [rs EXCEPT !.had_error = TRUE, !.diagnostics = Append(@, message)]

begin_scope(rs) == [rs EXCEPT !.scopes = Append(@, EmptyMap)]
end_scope(rs) == [rs EXCEPT !.scopes = SubSeq(@, 1, Len(@) - 1)]

\* scopes.last_mut().insert(name, defined)
scope_insert(rs, name, defined) ==
    [rs EXCEPT !.scopes[Len(rs.scopes)] = Put(@, name, defined)]

\* declare that looks for the name in every scope of the stack
declare_any_scope(rs, name) ==
    IF rs.scopes = <<>> THEN rs
    ELSE LET rs1 == IF \E i \in 1..Len(rs.scopes) : name \in DOMAIN rs.scopes[i]
                    THEN token_error(rs, "Already a variable with this name in this scope.")
                    ELSE rs
         IN scope_insert(rs1, name, FALSE)

declare(rs, name) ==
    IF rs.scopes = <<>> THEN rs
    ELSE LET rs1 == IF name \in DOMAIN rs.scopes[Len(rs.scopes)]
                    THEN token_error(rs, "Already a variable with this name in this scope.")
                    ELSE rs
         IN scope_insert(rs1, name, FALSE)

Resolver_define(rs, name) ==
    IF rs.scopes = <<>> THEN rs ELSE scope_insert(rs, name, TRUE)

\* index of the innermost scope containing name, searching from i down; 0 if none
RECURSIVE innermost_scope(_, _, _)
innermost_scope(scopes, name, i) ==
    IF i = 0 THEN 0
    ELSE IF name \in DOMAIN scopes[i] THEN i
    ELSE innermost_scope(scopes, name, i - 1)

\* resolve_local counting the scopes from the outermost one
resolve_local_from_outermost(rs, id, name) ==
    LET i == innermost_scope(rs.scopes, name, Len(rs.scopes)) IN
    IF i = 0 THEN rs
    ELSE [rs EXCEPT !.locals = Put(@, id, i - 1)]

resolve_local(rs, id, name) ==
    LET i == innermost_scope(rs.scopes, name, Len(rs.scopes)) IN
    IF i = 0 THEN rs
    ELSE [rs EXCEPT !.locals = Put(@, id, Len(rs.scopes) - i)]

resolve_variable_expr(rs, id, name) ==
    LET rs1 == IF rs.scopes # <<>> /\ name \in DOMAIN rs.scopes[Len(rs.scopes)]
                  /\ ~rs.scopes[Len(rs.scopes)][name]
               THEN token_error(rs, "Can't read local variable in its own initializer.")
               ELSE rs
    IN resolve_local(rs1, id, name)

RECURSIVE declare_parameters(_, _)
declare_parameters(rs, parameters) ==
    IF parameters = <<>> THEN rs
    ELSE declare_parameters(Resolver_define(declare(rs, Head(parameters)), Head(parameters)),
                            Tail(parameters))

\* resolve_function that leaves current_function at the kind of the function
\* it has resolved
resolve_function_keeping_kind(rs, function, function_type) ==
    LET rs1 == begin_scope([rs EXCEPT !.current_function = function_type])
        rs2 == declare_parameters(rs1, function.parameters)
    IN end_scope(resolve_stmts(rs2, function.body))

resolve_function(rs, function, function_type) ==
    LET enclosing_function == rs.current_function
        rs1 == begin_scope([rs EXCEPT !.current_function = function_type])
        rs2 == declare_parameters(rs1, function.parameters)
        rs3 == end_scope(resolve_stmts(rs2, function.body))
    IN [rs3 EXCEPT !.current_function = enclosing_function]

resolve_function_expr(rs, function) ==
    LET rs1 == IF function.name # <<>>
               THEN Resolver_define(declare(rs, function.name[1]), function.name[1])
               ELSE rs
    IN resolve_function(rs1, function, "Function")

resolve_return_stmt(rs, value) ==
    LET rs1 == IF rs.current_function = "None"
               THEN token_error(rs, "Can't return from top-level code.")
               ELSE rs
    IN IF value = <<>> THEN rs1
       ELSE LET rs2 == IF rs1.current_function = "Initializer"
                       THEN token_error(rs1, "Can't return a value from an initializer.")
                       ELSE rs1
            IN resolve_expr(rs2, value[1])

RECURSIVE resolve_methods(_, _)
resolve_methods(rs, methods) ==
    IF methods = <<>> THEN rs
    ELSE LET method == Head(methods)
             declaration == IF method.name # <<>> /\ method.name[1] = "init"
                            THEN "Initializer" ELSE "Method"
         IN resolve_methods(resolve_function(rs, method, declaration), Tail(methods))

resolve_class_stmt(rs, name, superclass, methods) ==
    LET enclosing_class == rs.current_class
        rs1 == Resolver_define(declare([rs EXCEPT !.current_class = "Class"], name), name)
        rs2 == IF superclass = <<>> THEN rs1
               ELSE LET rs1a == IF name = superclass[1].name
                                THEN token_error(rs1, "A class can't inherit from itself.")
                                ELSE rs1
                        rs1b == begin_scope(resolve_expr(rs1a, superclass[1]))
                    IN scope_insert(rs1b, "super", TRUE)
        rs3 == scope_insert(begin_scope(rs2), "this", TRUE)
        rs4 == end_scope(resolve_methods(rs3, methods))
        rs5 == IF superclass # <<>> THEN end_scope(rs4) ELSE rs4
    IN [rs5 EXCEPT !.current_class = enclosing_class]

resolve_this_expr(rs, id) ==
    IF rs.current_class = "None"
    THEN token_error(rs, "Can't use 'this' outside of a class.")
    ELSE resolve_local(rs, id, "this")

resolve_stmt(rs, stmt) ==
    CASE stmt.k = "Block" -> end_scope(resolve_stmts(begin_scope(rs), stmt.stmts))
      [] stmt.k = "Expr" -> resolve_expr(rs, stmt.expr)
      [] stmt.k = "If" ->
            LET rs1 == resolve_stmt(resolve_expr(rs, stmt.condition), stmt.then_branch) IN
            IF stmt.else_branch # <<>> THEN resolve_stmt(rs1, stmt.else_branch[1]) ELSE rs1
      [] stmt.k = "Return" -> resolve_return_stmt(rs, stmt.expr)
      [] stmt.k = "While" -> resolve_stmt(resolve_expr(rs, stmt.condition), stmt.body)
      [] stmt.k = "VarDeclaration" ->
            LET rs1 == declare(rs, stmt.name)
                rs2 == IF stmt.initializer # <<>> THEN resolve_expr(rs1, stmt.initializer[1])
                       ELSE rs1
            IN Resolver_define(rs2, stmt.name)
      [] stmt.k = "Class" -> resolve_class_stmt(rs, stmt.name, stmt.superclass, stmt.methods)

resolve_expr(rs, expr) ==
    CASE expr.k = "Binary" -> resolve_expr(resolve_expr(rs, expr.left), expr.right)
      [] expr.k = "Call" -> resolve_exprs(resolve_expr(rs, expr.callee), expr.arguments)
      [] expr.k = "Unary" -> resolve_expr(rs, expr.operand)
      [] expr.k = "Literal" -> rs
      [] expr.k = "Grouping" -> resolve_expr(rs, expr.expr)
      [] expr.k = "Ternary" ->
            resolve_expr(resolve_expr(resolve_expr(rs, expr.condition), expr.then_expr),
                         expr.else_expr)
      [] expr.k = "Variable" -> resolve_variable_expr(rs, expr.id, expr.name)
      [] expr.k = "Assignment" -> resolve_local(resolve_expr(rs, expr.value), expr.id, expr.name)
      [] expr.k = "Logical" -> resolve_expr(resolve_expr(rs, expr.left), expr.right)
      [] expr.k = "Function" -> resolve_function_expr(rs, expr.function)
      [] expr.k = "Get" -> resolve_expr(rs, expr.object)
      [] expr.k = "Set" -> resolve_expr(resolve_expr(rs, expr.value), expr.object)
      [] expr.k = "This" -> resolve_this_expr(rs, expr.id)
      [] expr.k = "Super" -> resolve_local(rs, expr.id, "super")

\* (each statement is resolved before the next one is looked at: the test on
\* rs1 makes the evaluation order that of the loop)
resolve_stmts(rs, stmts) ==
    IF stmts = <<>> THEN rs
    ELSE LET rs1 == resolve_stmt(rs, Head(stmts)) IN
         IF rs1.had_error \in BOOLEAN THEN resolve_stmts(rs1, Tail(stmts)) ELSE rs1

\* the argument loop of resolve_call_expr
resolve_exprs(rs, exprs) ==
    IF exprs = <<>> THEN rs
    ELSE LET rs1 == resolve_expr(rs, Head(exprs)) IN
         IF rs1.had_error \in BOOLEAN THEN resolve_exprs(rs1, Tail(exprs)) ELSE rs1

\* ------------------------------------------------------------------ expr.rs, stmt.rs
\* Expr and Stmt variants; id stands for the node's address (*const Expr),
\* an Option is a sequence of length 0 or 1
Literal(value) == [k |-> "Literal", value |-> value]
Variable(id, name) == [k |-> "Variable", id |-> id, name |-> name]
Assignment(id, name, value) == [k |-> "Assignment", id |-> id, name |-> name, value |-> value]
Binary(left, operator, right) ==
    [k |-> "Binary", left |-> left, operator |-> operator, right |-> right]
Call(callee, arguments) == [k |-> "Call", callee |-> callee, arguments |-> arguments]
Get(object, name) == [k |-> "Get", object |-> object, name |-> name]
Set(object, name, value) == [k |-> "Set", object |-> object, name |-> name, value |-> value]
This(id) == [k |-> "This", id |-> id]
Super(id, method) == [k |-> "Super", id |-> id, method |-> method]
Logical(left, operator, right) ==
    [k |-> "Logical", left |-> left, operator |-> operator, right |-> right]
Grouping(expr) == [k |-> "Grouping", expr |-> expr]
Unary(operator, operand) == [k |-> "Unary", operator |-> operator, operand |-> operand]
Ternary(condition, then_expr, else_expr) ==
    [k |-> "Ternary", condition |-> condition, then_expr |-> then_expr,
     else_expr |-> else_expr]
\* expr::Function
FunctionDecl(name, parameters, body) ==
    [name |-> name, parameters |-> parameters, body |-> body]
FunctionExpr(function) == [k |-> "Function", function |-> function]

Block(stmts) == [k |-> "Block", stmts |-> stmts]
ExprStmt(expr) == [k |-> "Expr", expr |-> expr]
If(condition, then_branch, else_branch) ==
    [k |-> "If", condition |-> condition, then_branch |-> then_branch,
     else_branch |-> else_branch]
ReturnStmt(expr) == [k |-> "Return", expr |-> expr]
While(condition, body) == [k |-> "While", condition |-> condition, body |-> body]
VarDeclaration(name, initializer) ==
    [k |-> "VarDeclaration", name |-> name, initializer |-> initializer]
ClassStmt(name, superclass, methods) ==
    [k |-> "Class", name |-> name, superclass |-> superclass, methods |-> methods]

\* Parser::function_declaration: `fun name(...) {...}` is a variable
\* declaration whose initializer is the function literal of the same name
function_declaration(name, parameters, body) ==
    VarDeclaration(name, <<FunctionExpr(FunctionDecl(<<name>>, parameters, body))>>)

\* `print(e);`
PrintStmt(id, e) == ExprStmt(Call(Variable(id, "print"), <<e>>))

\* ------------------------------------------------------------------ token.rs
\* TokenKind: the variant name with the payload of Number (n: the integral
\* part, s: the fraction digits) and of String (s: the content)
Kind(name) == [k |-> name, n |-> 0, s |-> ""]
NumberKind(n, fraction) == [k |-> "Number", n |-> n, s |-> fraction]
StringKind(value) == [k |-> "String", n |-> 0, s |-> value]

Token(kind, lexeme, line) == [kind |-> kind, lexeme |-> lexeme, line |-> line]

\* ------------------------------------------------------------------ scanner.rs
\* A source text is the sequence of its characters (source.chars().collect());
\* indices are those of the code (from 0), so source[i + 1] is its source[i].
AsciiDigit == {Digits[i] : i \in 1..10}
AsciiAlphabetic ==
    {"a", "b", "c", "d", "e", "f", "g", "h", "i", "j", "k", "l", "m", "n", "o", "p", "q",
     "r", "s", "t", "u", "v", "w", "x", "y", "z", "A", "B", "C", "D", "E", "F", "G", "H",
     "I", "J", "K", "L", "M", "N", "O", "P", "Q", "R", "S", "T", "U", "V", "W", "X", "Y",
     "Z"}

\* Scanner::keywords
keywords ==
    [and |-> "And", class |-> "Class", else |-> "Else", false |-> "False", for |-> "For",
     fun |-> "Fun", if |-> "If", nil |-> "Nil", or |-> "Or", print |-> "Print",
     return |-> "Return", super |-> "Super", this |-> "This", true |-> "True",
     var |-> "Var", while |-> "While"]

\* ScanTokens::new
ScanTokens_new(source) ==
    [source |-> source, start |-> 0, current |-> 0, line |-> 1, consumed |-> FALSE]

ScanTokens_is_at_end(sc) == sc.current >= Len(sc.source)

\* the character '\0' that peek and peek_next yield past the end
NUL == "NUL"

ScanTokens_peek(sc) == IF ScanTokens_is_at_end(sc) THEN NUL ELSE sc.source[sc.current + 1]

peek_next(sc) == IF sc.current + 1 >= Len(sc.source) THEN NUL ELSE sc.source[sc.current + 2]

\* ScanTokens::advance; the character it returns is sc.source[sc.current + 1]
ScanTokens_advance(sc) == [sc EXCEPT !.current = @ + 1]

\* ScanTokens::match_char: whether it matched, and the scanner after it
\* match_char that tests the character and leaves it in place
match_char_peeking(sc, expected) ==
    IF ScanTokens_is_at_end(sc) \/ sc.source[sc.current + 1] # expected
    THEN [matched |-> FALSE, sc |-> sc]
    ELSE [matched |-> TRUE, sc |-> sc]

match_char(sc, expected) ==
    IF ScanTokens_is_at_end(sc) \/ sc.source[sc.current + 1] # expected
    THEN [matched |-> FALSE, sc |-> sc]
    ELSE [matched |-> TRUE, sc |-> ScanTokens_advance(sc)]

RECURSIVE copy_slice(_, _, _)
copy_slice(source, begin, end) ==
    IF begin >= end THEN "" ELSE source[begin + 1] \o copy_slice(source, begin + 1, end)

current_lexeme(sc) == copy_slice(sc.source, sc.start, sc.current)

\* what one scanning step leaves: the scanner, the Option<Token> (a sequence
\* of length 0 or 1) and the messages given to ErrorReporter::error
Scanned(sc, token, errors) == [sc |-> sc, token |-> token, errors |-> errors]

emit_token(sc, kind) == Scanned(sc, <<Token(kind, current_lexeme(sc), sc.line)>>, <<>>)

cond_emit(sc, if_match, then_emit, else_emit) ==
    IF match_char(sc, if_match).matched
    THEN emit_token(match_char(sc, if_match).sc, Kind(then_emit))
    ELSE emit_token(sc, Kind(else_emit))

RECURSIVE comment(_)
comment(sc) ==
    IF ScanTokens_peek(sc) # "\n" /\ ~ScanTokens_is_at_end(sc)
    THEN comment(ScanTokens_advance(sc))
    ELSE Scanned(sc, <<>>, <<>>)

RECURSIVE block_comment(_, _)
block_comment(sc, nest) ==
    IF ~ScanTokens_is_at_end(sc) /\ nest > 0
    THEN LET ch == sc.source[sc.current + 1]
             sc1 == [ScanTokens_advance(sc) EXCEPT !.line = IF ch = "\n" THEN @ + 1 ELSE @]
         IN IF ch = "/" /\ match_char(sc1, "*").matched
            THEN block_comment(match_char(sc1, "*").sc, nest + 1)
            ELSE IF ch = "*" /\ match_char(sc1, "/").matched
            THEN block_comment(match_char(sc1, "/").sc, nest - 1)
            ELSE block_comment(sc1, nest)
    ELSE Scanned(sc, <<>>, IF nest > 0 THEN <<"Unexpected EOF">> ELSE <<>>)

RECURSIVE string(_)
string(sc) ==
    IF ScanTokens_peek(sc) # "\"" /\ ~ScanTokens_is_at_end(sc)
    THEN string([ScanTokens_advance(sc) EXCEPT
                    !.line = IF ScanTokens_peek(sc) = "\n" THEN @ + 1 ELSE @])
    ELSE IF ScanTokens_is_at_end(sc)
    THEN Scanned(sc, <<>>, <<"Unterminated string">>)
    ELSE emit_token(ScanTokens_advance(sc),
                    StringKind(copy_slice(sc.source, sc.start + 1, sc.current)))

\* while self.peek().is_ascii_digit() { self.advance(); }
RECURSIVE number_digits(_)
number_digits(sc) ==
    IF ScanTokens_peek(sc) \in AsciiDigit THEN number_digits(ScanTokens_advance(sc)) ELSE sc

\* str::parse of a run of digits
RECURSIVE parse_digits(_, _, _)
parse_digits(source, begin, end) ==
    IF begin >= end THEN 0
    ELSE parse_digits(source, begin, end - 1) * 10
            + (CHOOSE d \in 0..9 : Digits[d + 1] = source[end])

\* the fraction digits of a number lexeme, without the zeros that do not
\* change its value
RECURSIVE fraction_digits(_, _, _)
fraction_digits(source, begin, end) ==
    IF begin >= end THEN ""
    ELSE IF source[end] = "0" THEN fraction_digits(source, begin, end - 1)
    ELSE copy_slice(source, begin, end)

number(sc) ==
    LET whole == number_digits(sc)
        point == IF ScanTokens_peek(whole) = "." /\ peek_next(whole) \in AsciiDigit
                 THEN ScanTokens_advance(whole) ELSE whole
        last == number_digits(point)
    IN emit_token(last, NumberKind(parse_digits(sc.source, sc.start, whole.current),
                                   fraction_digits(sc.source, point.current, last.current)))

\* while self.peek().is_ascii_alphanumeric() { self.advance(); }
RECURSIVE identifier_chars(_)
identifier_chars(sc) ==
    IF ScanTokens_peek(sc) \in AsciiAlphabetic \cup AsciiDigit
    THEN identifier_chars(ScanTokens_advance(sc)) ELSE sc

identifier(sc) ==
    LET Emit(last, text) ==
           emit_token(last, Kind(IF text \in DOMAIN keywords THEN keywords[text]
                                 ELSE "Identifier"))
    IN Emit(identifier_chars(sc), current_lexeme(identifier_chars(sc)))

\* ScanTokens::scan_token, called with the scanner before its advance()
scan_token(sc0) ==
    LET ch == sc0.source[sc0.current + 1]
        sc == ScanTokens_advance(sc0)
    IN CASE ch = "(" -> emit_token(sc, Kind("LeftParen"))
         [] ch = ")" -> emit_token(sc, Kind("RightParen"))
         [] ch = "{" -> emit_token(sc, Kind("LeftBrace"))
         [] ch = "}" -> emit_token(sc, Kind("RightBrace"))
         [] ch = "," -> emit_token(sc, Kind("Comma"))
         [] ch = "." -> emit_token(sc, Kind("Dot"))
         [] ch = "-" -> emit_token(sc, Kind("Minus"))
         [] ch = "+" -> emit_token(sc, Kind("Plus"))
         [] ch = ";" -> emit_token(sc, Kind("Semicolon"))
         [] ch = "*" -> emit_token(sc, Kind("Star"))
         [] ch = "!" -> cond_emit(sc, "=", "BangEqual", "Bang")
         [] ch = "=" -> cond_emit(sc, "=", "EqualEqual", "Equal")
         [] ch = "<" -> cond_emit(sc, "=", "LessEqual", "Less")
         [] ch = ">" -> cond_emit(sc, "=", "GreaterEqual", "Greater")
         [] ch = "/" ->
               (IF match_char(sc, "/").matched THEN comment(match_char(sc, "/").sc)
                ELSE IF match_char(sc, "*").matched
                THEN block_comment(match_char(sc, "*").sc, 1)
                ELSE emit_token(sc, Kind("Slash")))
         [] ch \in {" ", "\r", "\t"} -> Scanned(sc, <<>>, <<>>)
         [] ch = "\n" -> Scanned([sc EXCEPT !.line = @ + 1], <<>>, <<>>)
         [] ch = "\"" -> string(sc)
         [] OTHER ->
               (IF ch \in AsciiDigit THEN number(sc)
                ELSE IF ch \in AsciiAlphabetic THEN identifier(sc)
                ELSE Scanned(sc, <<>>, <<"Unexpected character">>))

\* emit_eof that never records the end-of-input token as consumed
emit_eof_again(sc) ==
    IF sc.consumed THEN Scanned(sc, <<>>, <<>>)
    ELSE emit_token(sc, Kind("Eof"))

emit_eof(sc) ==
    IF sc.consumed THEN Scanned(sc, <<>>, <<>>)
    ELSE emit_token([sc EXCEPT !.consumed = TRUE], Kind("Eof"))

\* one iteration of the loop of Iterator::next: start(), then emit_eof at
\* the end of the source and scan_token before it
\* next_iteration giving up at a diagnostic: the rest of the text is dropped
next_iteration_halting(sc) ==
    LET Halt(r) ==
           IF r.errors # <<>>
           THEN Scanned([r.sc EXCEPT !.current = Len(sc.source)], r.token, r.errors)
           ELSE r
    IN IF ScanTokens_is_at_end(sc) THEN emit_eof([sc EXCEPT !.start = sc.current])
       ELSE Halt(scan_token([sc EXCEPT !.start = sc.current]))

next_iteration(sc) ==
    IF ScanTokens_is_at_end(sc) THEN emit_eof([sc EXCEPT !.start = sc.current])
    ELSE scan_token([sc EXCEPT !.start = sc.current])

\* Iterator::next: the loop goes on while scan_token yields no token
RECURSIVE ScanTokens_next(_, _)
ScanTokens_next(sc, errors) ==
    LET Loop(r) ==
           IF ScanTokens_is_at_end(sc) \/ r.token # <<>>
           THEN Scanned(r.sc, r.token, errors \o r.errors)
           ELSE ScanTokens_next(r.sc, errors \o r.errors)
    IN Loop(next_iteration(sc))

\* scanner.scan_tokens(source).collect(): next until it yields nothing
RECURSIVE collect(_, _, _)
collect(sc, tokens, errors) ==
    LET Item(r) ==
           IF r.token = <<>> THEN [tokens |-> tokens, errors |-> r.errors, sc |-> r.sc]
           ELSE collect(r.sc, tokens \o r.token, r.errors)
    IN Item(ScanTokens_next(sc, errors))

scan_tokens(source) == collect(ScanTokens_new(source), <<>>, <<>>)

\* ------------------------------------------------------------------ parser.rs
\* The parser is [tokens, current] with the messages it gave to
\* ErrorReporter::token_error; current counts from 0, so tokens[current + 1]
\* is the code's tokens[current].  An Option result is Some(p, val) or
\* None(p), p the parser after the call.  The node built from a token has the
\* token's index as its id.
EQUALITY_OPERATORS == {Kind("BangEqual"), Kind("EqualEqual")}
COMPARISON_OPERATORS ==
    {Kind("Greater"), Kind("GreaterEqual"), Kind("Less"), Kind("LessEqual")}
TERM_OPERATORS == {Kind("Minus"), Kind("Plus")}
FACTOR_OPERATORS == {Kind("Slash"), Kind("Star")}
UNARY_OPERATORS == {Kind("Bang"), Kind("Minus")}
SYNCHRONIZE ==
    {Kind("Class"), Kind("Fun"), Kind("Var"), Kind("For"), Kind("If"), Kind("While"),
     Kind("Return")}

Parser_new(tokens) == [tokens |-> tokens, current |-> 0, errors |-> <<>>]

Some(p, val) == [kind |-> "ok", val |-> val, p |-> p]
None(p) == [kind |-> "none", val |-> <<>>, p |-> p]

Parser_peek(p) == p.tokens[p.current + 1]
previous(p) == p.tokens[p.current]
Parser_is_at_end(p) == Parser_peek(p).kind = Kind("Eof")
check(p, kind) == IF Parser_is_at_end(p) THEN FALSE ELSE Parser_peek(p).kind = kind
\* Parser::advance; the token it returns is previous of the result
Parser_advance(p) == IF ~Parser_is_at_end(p) THEN [p EXCEPT !.current = @ + 1] ELSE p
\* whether match_one / match_many advance; the parser is then Parser_advance(p)
match_one(p, kind) == check(p, kind)
match_many(p, kinds) == \E kind \in kinds : check(p, kind)

\* Parser::error: report at the token, yield None
error(p, message) == None([p EXCEPT !.errors = Append(@, message)])

\* Parser::consume: the token consumed, or the error at the token peeked
consume(p, kind, message) ==
    IF check(p, kind) THEN Some(Parser_advance(p), Parser_peek(p)) ELSE error(p, message)

RECURSIVE synchronize_loop(_)
synchronize_loop(p) ==
    IF Parser_is_at_end(p) THEN p
    ELSE IF previous(p).kind = Kind("Semicolon") THEN p
    ELSE IF Parser_peek(p).kind \in SYNCHRONIZE THEN p
    ELSE synchronize_loop(Parser_advance(p))

synchronize(p) == synchronize_loop(Parser_advance(p))

RECURSIVE parse_fn(_, _)

\* Parser::expression
expression(p) == parse_fn("assigment", p)

RECURSIVE stmt_vec(_, _)
\* the loop of stmt_vec; the result of the closing consume is dropped
stmt_vec(p, stmts) ==
    IF ~check(p, Kind("RightBrace")) /\ ~Parser_is_at_end(p)
    THEN Try(parse_fn("declaration", p), LAMBDA stmt : stmt_vec(stmt.p, Append(stmts, stmt.val)))
    ELSE Some(consume(p, Kind("RightBrace"), "Expect '}' after block.").p, stmts)

block(p) == Try(stmt_vec(p, <<>>), LAMBDA stmts : Some(stmts.p, Block(stmts.val)))

RECURSIVE parameters_loop(_, _)
\* the loop of function_literal, before the next parameter
parameters_loop(p, parameters) ==
    Try(consume(IF Len(parameters) >= 255
                THEN error(p, "Can't have more than 255 parameters.").p ELSE p,
                Kind("Identifier"), "Expect parameter name."),
    LAMBDA parameter :
    IF match_one(parameter.p, Kind("Comma"))
    THEN parameters_loop(Parser_advance(parameter.p),
                         Append(parameters, parameter.val.lexeme))
    ELSE Some(parameter.p, Append(parameters, parameter.val.lexeme)))

function_literal(p, kind, name) ==
    Try(consume(p, Kind("LeftParen"), "Expect '(' after " \o kind \o " name."),
    LAMBDA paren :
    Try(IF ~check(paren.p, Kind("RightParen")) THEN parameters_loop(paren.p, <<>>)
        ELSE Some(paren.p, <<>>),
    LAMBDA parameters :
    Try(consume(parameters.p, Kind("RightParen"), "Expect ')' after parameters."),
    LAMBDA close :
    Try(consume(close.p, Kind("LeftBrace"), "Expect '{' before " \o kind \o " body."),
    LAMBDA brace :
    Try(stmt_vec(brace.p, <<>>), LAMBDA body :
    Some(body.p, FunctionDecl(name, parameters.val, body.val)))))))

anonymous_function(p) ==
    Try(function_literal(p, "function", <<>>), LAMBDA function :
    Some(function.p, FunctionExpr(function.val)))

\* Parser::literal: a Number or String token becomes a literal and is consumed
literal(p) ==
    IF Parser_is_at_end(p) THEN None(p)
    ELSE IF Parser_peek(p).kind.k = "Number"
    THEN Some(Parser_advance(p),
              Literal([Num(Parser_peek(p).kind.n) EXCEPT !.s = Parser_peek(p).kind.s]))
    ELSE IF Parser_peek(p).kind.k = "String"
    THEN Some(Parser_advance(p), Literal(Str(Parser_peek(p).kind.s)))
    ELSE None(p)

primary(p) ==
    IF match_one(p, Kind("False")) THEN Some(Parser_advance(p), Literal(Bool(FALSE)))
    ELSE IF match_one(p, Kind("True")) THEN Some(Parser_advance(p), Literal(Bool(TRUE)))
    ELSE IF match_one(p, Kind("Nil")) THEN Some(Parser_advance(p), Literal(Nil))
    ELSE IF literal(p).kind = "ok" THEN literal(p)
    ELSE IF match_one(p, Kind("Super"))
    THEN Try(consume(Parser_advance(p), Kind("Dot"), "Expect '.' after 'super'."),
         LAMBDA dot :
         Try(consume(dot.p, Kind("Identifier"), "Expect superclass method name."),
         LAMBDA method :
         Some(method.p, Super(p.current + 1, method.val.lexeme))))
    ELSE IF match_one(p, Kind("This")) THEN Some(Parser_advance(p), This(p.current + 1))
    ELSE IF match_one(p, Kind("Identifier"))
    THEN Some(Parser_advance(p), Variable(p.current + 1, Parser_peek(p).lexeme))
    ELSE IF match_one(p, Kind("Fun")) THEN anonymous_function(Parser_advance(p))
    ELSE IF match_one(p, Kind("LeftParen"))
    THEN Try(expression(Parser_advance(p)), LAMBDA expr :
         Try(consume(expr.p, Kind("RightParen"), "Expect ')' after expression."),
         LAMBDA paren :
         Some(paren.p, Grouping(expr.val))))
    ELSE error(p, "Expect expression")

RECURSIVE finish_arguments(_, _)
\* the loop of finish_call, before the next argument
finish_arguments(p, arguments) ==
    Try(expression(IF Len(arguments) >= 255
                   THEN error(p, "Can't have more than 255 arguments.").p ELSE p),
    LAMBDA argument :
    IF match_one(argument.p, Kind("Comma"))
    THEN finish_arguments(Parser_advance(argument.p), Append(arguments, argument.val))
    ELSE Some(argument.p, Append(arguments, argument.val)))

finish_call(p, callee) ==
    Try(IF ~check(p, Kind("RightParen")) THEN finish_arguments(p, <<>>) ELSE Some(p, <<>>),
    LAMBDA arguments :
    Try(consume(arguments.p, Kind("RightParen"), "Expect ')' after arguments."),
    LAMBDA paren :
    Some(paren.p, Call(callee, arguments.val))))

RECURSIVE call_loop(_)
\* the loop of Parser::call, expr the Some result parsed so far
call_loop(expr) ==
    IF match_one(expr.p, Kind("LeftParen"))
    THEN Try(finish_call(Parser_advance(expr.p), expr.val), LAMBDA called :
         call_loop(called))
    ELSE IF match_one(expr.p, Kind("Dot"))
    THEN Try(consume(Parser_advance(expr.p), Kind("Identifier"),
                     "Expect property name after '.'."),
         LAMBDA name :
         call_loop(Some(name.p, Get(expr.val, name.val.lexeme))))
    ELSE expr

call(p) == Try(primary(p), LAMBDA expr : call_loop(expr))

unary(p) ==
    IF match_many(p, UNARY_OPERATORS)
    THEN Try(parse_fn("unary", Parser_advance(p)), LAMBDA right :
         Some(right.p, Unary(Parser_peek(p).lexeme, right.val)))
    ELSE call(p)

RECURSIVE binary_loop_right(_, _, _)
\* the loop of Parser::binary grouping to the right: the operators that follow
\* are folded into the right operand
binary_loop_right(expr, operators, operand) ==
    IF match_many(expr.p, operators)
    THEN Try(parse_fn(operand, Parser_advance(expr.p)), LAMBDA right :
         Try(binary_loop_right(right, operators, operand), LAMBDA rest :
         Some(rest.p, Binary(expr.val, Parser_peek(expr.p).lexeme, rest.val))))
    ELSE expr

RECURSIVE binary_loop(_, _, _)
\* the while loop of Parser::binary, expr the Some result built so far
binary_loop(expr, operators, operand) ==
    IF match_many(expr.p, operators)
    THEN Try(parse_fn(operand, Parser_advance(expr.p)), LAMBDA right :
         binary_loop(Some(right.p, Binary(expr.val, Parser_peek(expr.p).lexeme, right.val)),
                     operators, operand))
    ELSE expr

binary(p, operators, operand) ==
    Try(parse_fn(operand, p), LAMBDA expr : binary_loop(expr, operators, operand))

factor(p) == binary(p, FACTOR_OPERATORS, "unary")
term(p) == binary(p, TERM_OPERATORS, "factor")
comparison(p) == binary(p, COMPARISON_OPERATORS, "term")
equality(p) == binary(p, EQUALITY_OPERATORS, "comparison")

RECURSIVE logical_loop(_, _, _)
\* the while loop of Parser::logical
logical_loop(expr, token_kind, operand) ==
    IF match_one(expr.p, token_kind)
    THEN Try(parse_fn(operand, Parser_advance(expr.p)), LAMBDA right :
         logical_loop(Some(right.p, Logical(expr.val, Parser_peek(expr.p).lexeme, right.val)),
                      token_kind, operand))
    ELSE expr

logical(p, token_kind, operand) ==
    Try(parse_fn(operand, p), LAMBDA expr : logical_loop(expr, token_kind, operand))

and(p) == logical(p, Kind("And"), "equality")
or(p) == logical(p, Kind("Or"), "and")

ternary(p) ==
    Try(or(p), LAMBDA expr :
    IF match_one(expr.p, Kind("QuestionMark"))
    THEN Try(expression(Parser_advance(expr.p)), LAMBDA then_expr :
         Try(expression(consume(then_expr.p, Kind("Colon"), "Expect ':'.").p),
         LAMBDA else_expr :
         Some(else_expr.p, Ternary(expr.val, then_expr.val, else_expr.val))))
    ELSE expr)

\* assigment taking every left-hand side: the value replaces a target that is
\* neither a Variable nor a Get, and nothing is reported
assigment_unchecked(p) ==
    Try(ternary(p), LAMBDA expr :
    IF match_one(expr.p, Kind("Equal"))
    THEN Try(parse_fn("assigment", Parser_advance(expr.p)), LAMBDA value :
         IF expr.val.k = "Variable"
         THEN Some(value.p, Assignment(expr.p.current + 1, expr.val.name, value.val))
         ELSE IF expr.val.k = "Get"
         THEN Some(value.p, Set(expr.val.object, expr.val.name, value.val))
         ELSE Some(value.p, value.val))
    ELSE expr)

assigment(p) ==
    Try(ternary(p), LAMBDA expr :
    IF match_one(expr.p, Kind("Equal"))
    THEN Try(parse_fn("assigment", Parser_advance(expr.p)), LAMBDA value :
         IF expr.val.k = "Variable"
         THEN Some(value.p, Assignment(expr.p.current + 1, expr.val.name, value.val))
         ELSE IF expr.val.k = "Get"
         THEN Some(value.p, Set(expr.val.object, expr.val.name, value.val))
         ELSE error(value.p, "Invalid assignment target."))
    ELSE expr)

expression_statement(p) ==
    Try(expression(p), LAMBDA expr :
    Try(consume(expr.p, Kind("Semicolon"), "Expect ';' after expression."), LAMBDA semi :
    Some(semi.p, ExprStmt(expr.val))))

\* Parser::function
function(p, kind) ==
    Try(consume(p, Kind("Identifier"), "Expect " \o kind \o " name."), LAMBDA name :
    function_literal(name.p, kind, <<name.val.lexeme>>))

\* Parser::function_declaration
parse_function_declaration(p) ==
    Try(function(p, "function"), LAMBDA f :
    Some(f.p, function_declaration(f.val.name[1], f.val.parameters, f.val.body)))

RECURSIVE methods_loop(_, _)
\* the loop of class_declaration over the methods
methods_loop(p, methods) ==
    IF ~check(p, Kind("RightBrace")) /\ ~Parser_is_at_end(p)
    THEN Try(function(p, "method"), LAMBDA method :
         methods_loop(method.p, Append(methods, method.val)))
    ELSE Some(p, methods)

class_declaration(p) ==
    Try(consume(p, Kind("Identifier"), "Expect class name."), LAMBDA name :
    Try(IF match_one(name.p, Kind("Less"))
        THEN Try(consume(Parser_advance(name.p), Kind("Identifier"),
                         "Expect superclass name."),
             LAMBDA super :
             Some(super.p, <<Variable(super.p.current, super.val.lexeme)>>))
        ELSE Some(name.p, <<>>),
    LAMBDA superclass :
    Try(consume(superclass.p, Kind("LeftBrace"), "Expect '{' before class body."),
    LAMBDA brace :
    Try(methods_loop(brace.p, <<>>), LAMBDA methods :
    Try(consume(methods.p, Kind("RightBrace"), "Expect '}' after class body."),
    LAMBDA close :
    Some(close.p, ClassStmt(name.val.lexeme, superclass.val, methods.val)))))))

\* Parser::var_declaration; a failed initializer is dropped, not propagated
var_declaration(p) ==
    Try(consume(p, Kind("Identifier"), "Expect variable name."), LAMBDA name :
    LET Rest(initializer) ==
           Try(consume(initializer.p, Kind("Semicolon"),
                       "Expect ';' after variable declaration."),
           LAMBDA semi :
           Some(semi.p, VarDeclaration(name.val.lexeme,
                                       IF initializer.kind = "ok" THEN <<initializer.val>>
                                       ELSE <<>>)))
    IN IF match_one(name.p, Kind("Equal")) THEN Rest(expression(Parser_advance(name.p)))
       ELSE Rest(None(name.p)))

if_statement(p) ==
    Try(consume(p, Kind("LeftParen"), "Expect '(' after 'if'."), LAMBDA paren :
    Try(expression(paren.p), LAMBDA condition :
    Try(consume(condition.p, Kind("RightParen"), "Expect ')' after if condition."),
    LAMBDA close :
    Try(parse_fn("statement", close.p), LAMBDA then_branch :
    IF match_one(then_branch.p, Kind("Else"))
    THEN Try(parse_fn("statement", Parser_advance(then_branch.p)), LAMBDA else_branch :
         Some(else_branch.p, If(condition.val, then_branch.val, <<else_branch.val>>)))
    ELSE Some(then_branch.p, If(condition.val, then_branch.val, <<>>))))))

return_stmt(p) ==
    Try(IF ~check(p, Kind("Semicolon"))
        THEN Try(expression(p), LAMBDA value : Some(value.p, <<value.val>>))
        ELSE Some(p, <<>>),
    LAMBDA value :
    Try(consume(value.p, Kind("Semicolon"), "Expect ';' after return value."),
    LAMBDA semi :
    Some(semi.p, ReturnStmt(value.val))))

while_statement(p) ==
    Try(consume(p, Kind("LeftParen"), "Expect '(' after 'while'."), LAMBDA paren :
    Try(expression(paren.p), LAMBDA condition :
    Try(consume(condition.p, Kind("RightParen"), "Expect ')' after condition."),
    LAMBDA close :
    Try(parse_fn("statement", close.p), LAMBDA body :
    Some(body.p, While(condition.val, body.val))))))

\* Parser::for_statement: the loop is rewritten into blocks and a while
\* for_statement with the increment put before the body
for_statement_increment_first(p) ==
    Try(consume(p, Kind("LeftParen"), "Expect '(' after 'for'."), LAMBDA paren :
    Try(IF match_one(paren.p, Kind("Semicolon")) THEN Some(Parser_advance(paren.p), <<>>)
        ELSE IF match_one(paren.p, Kind("Var"))
        THEN Try(var_declaration(Parser_advance(paren.p)), LAMBDA v : Some(v.p, <<v.val>>))
        ELSE Try(expression_statement(paren.p), LAMBDA e : Some(e.p, <<e.val>>)),
    LAMBDA initializer :
    Try(IF ~check(initializer.p, Kind("Semicolon")) THEN expression(initializer.p)
        ELSE Some(initializer.p, Literal(Bool(TRUE))),
    LAMBDA condition :
    Try(consume(condition.p, Kind("Semicolon"), "Expect ';' after loop condition."),
    LAMBDA semi :
    Try(IF ~check(semi.p, Kind("RightParen"))
        THEN Try(expression(semi.p), LAMBDA e : Some(e.p, <<e.val>>))
        ELSE Some(semi.p, <<>>),
    LAMBDA increment :
    Try(consume(increment.p, Kind("RightParen"), "Expect ')' after for clauses."),
    LAMBDA close :
    Try(parse_fn("statement", close.p), LAMBDA body :
    LET Looped(inner) ==
           IF initializer.val # <<>>
           THEN Block(<<initializer.val[1], While(condition.val, inner)>>)
           ELSE While(condition.val, inner)
    IN Some(body.p, Looped(IF increment.val # <<>>
                           THEN Block(<<ExprStmt(increment.val[1]), body.val>>)
                           ELSE body.val)))))))))

for_statement(p) ==
    Try(consume(p, Kind("LeftParen"), "Expect '(' after 'for'."), LAMBDA paren :
    Try(IF match_one(paren.p, Kind("Semicolon")) THEN Some(Parser_advance(paren.p), <<>>)
        ELSE IF match_one(paren.p, Kind("Var"))
        THEN Try(var_declaration(Parser_advance(paren.p)), LAMBDA v : Some(v.p, <<v.val>>))
        ELSE Try(expression_statement(paren.p), LAMBDA e : Some(e.p, <<e.val>>)),
    LAMBDA initializer :
    Try(IF ~check(initializer.p, Kind("Semicolon")) THEN expression(initializer.p)
        ELSE Some(initializer.p, Literal(Bool(TRUE))),
    LAMBDA condition :
    Try(consume(condition.p, Kind("Semicolon"), "Expect ';' after loop condition."),
    LAMBDA semi :
    Try(IF ~check(semi.p, Kind("RightParen"))
        THEN Try(expression(semi.p), LAMBDA e : Some(e.p, <<e.val>>))
        ELSE Some(semi.p, <<>>),
    LAMBDA increment :
    Try(consume(increment.p, Kind("RightParen"), "Expect ')' after for clauses."),
    LAMBDA close :
    Try(parse_fn("statement", close.p), LAMBDA body :
    LET Looped(inner) ==
           IF initializer.val # <<>>
           THEN Block(<<initializer.val[1], While(condition.val, inner)>>)
           ELSE While(condition.val, inner)
    IN Some(body.p, Looped(IF increment.val # <<>>
                           THEN Block(<<body.val, ExprStmt(increment.val[1])>>)
                           ELSE body.val)))))))))

statement(p) ==
    IF match_one(p, Kind("For")) THEN for_statement(Parser_advance(p))
    ELSE IF match_one(p, Kind("If")) THEN if_statement(Parser_advance(p))
    ELSE IF match_one(p, Kind("Return")) THEN return_stmt(Parser_advance(p))
    ELSE IF match_one(p, Kind("While")) THEN while_statement(Parser_advance(p))
    ELSE IF match_one(p, Kind("LeftBrace")) THEN block(Parser_advance(p))
    ELSE expression_statement(p)

try_declaration(p) ==
    IF match_one(p, Kind("Class")) THEN class_declaration(Parser_advance(p))
    ELSE IF match_one(p, Kind("Fun")) THEN parse_function_declaration(Parser_advance(p))
    ELSE IF match_one(p, Kind("Var")) THEN var_declaration(Parser_advance(p))
    ELSE parse_fn("statement", p)

declaration(p) ==
    LET Recover(result) ==
           IF result.kind = "none" THEN None(synchronize(result.p)) ELSE result
    IN Recover(try_declaration(p))

\* A call of one of the parsing functions that the grammar reaches again from
\* inside itself, by its name: the function passed as `operand` to binary and
\* logical, and self.assigment(), self.unary(), self.statement() and
\* self.declaration() where they are called from below themselves
parse_fn(name, p) ==
    CASE name = "unary" -> unary(p)
      [] name = "factor" -> factor(p)
      [] name = "term" -> term(p)
      [] name = "comparison" -> comparison(p)
      [] name = "equality" -> equality(p)
      [] name = "and" -> and(p)
      [] name = "assigment" -> assigment(p)
      [] name = "statement" -> statement(p)
      [] name = "declaration" -> declaration(p)

\* the loop of Parser::parse: a failed declaration ends parse with None
RECURSIVE parse_loop(_, _)
parse_loop(p, stmts) ==
    IF ~Parser_is_at_end(p)
    THEN Try(parse_fn("declaration", p), LAMBDA stmt :
         parse_loop(stmt.p, Append(stmts, stmt.val)))
    ELSE Some(p, stmts)

parse(p) == parse_loop(p, <<>>)

\* tests::test_parse_expr: scan the source, parse one expression
test_parse_expr(source) == expression(Parser_new(scan_tokens(source).tokens))

\* ------------------------------------------------------------------ programs
\* The parsed programs a run starts from.  Each is written as the tree
\* Parser::parse builds for the source text quoted above it.
Parameters(N) == [i \in 1..N |-> "p" \o NatToStr(i)]
Arguments(M) == [i \in 1..M |-> Literal(Num(i))]

\* fun f(p1, .., pN) { print("body"); }  print("before");
\* { f(1, .., M); print("rest"); }  print("after");
ArityFunctionProgram(N, M) ==
    << function_declaration("f", Parameters(N), <<PrintStmt(1, Literal(Str("body")))>>),
       PrintStmt(2, Literal(Str("before"))),
       Block(<<ExprStmt(Call(Variable(3, "f"), Arguments(M))),
               PrintStmt(4, Literal(Str("rest")))>>),
       PrintStmt(5, Literal(Str("after"))) >>

\* class K { init(p1, .., pN) { print("init"); } }  print("before");
\* K(1, .., M);  print("after");
ArityClassProgram(N, M) ==
    << ClassStmt("K", <<>>,
                 <<FunctionDecl(<<"init">>, Parameters(N), <<PrintStmt(1, Literal(Str("init")))>>)>>),
       PrintStmt(2, Literal(Str("before"))),
       ExprStmt(Call(Variable(3, "K"), Arguments(M))),
       PrintStmt(4, Literal(Str("after"))) >>

\* print(1, .., M);  clock(1, .., M);  print("after");
ArityNativeProgram(M) ==
    << ExprStmt(Call(Variable(1, "print"), Arguments(M))),
       ExprStmt(Call(Variable(2, "clock"), Arguments(M))),
       PrintStmt(3, Literal(Str("after"))) >>

\* var s = "text";  s();  print("after");
NotCallableProgram ==
    << VarDeclaration("s", <<Literal(Str("text"))>>),
       ExprStmt(Call(Variable(1, "s"), <<>>)),
       PrintStmt(2, Literal(Str("after"))) >>

\* fun count(n) {
\*   while (n < 5) { { if (n == 3) { return n; } print("in"); } print(n); n = n + 1; }
\*   print("end");
\* }
\* print(count(start));
\* fun bare() { if (true) return; print("no"); }  print(bare());
\* fun fall() { print("fall"); }  print(fall());
\* fun fail() { while (true) { { nil + 1; } print("no"); } print("no"); }
\* fun relay() { if (true) { fail(); } print("no"); }
\* relay();  print("unreached");
ReturnProgram(start) ==
    << function_declaration("count", <<"n">>,
         << While(Binary(Variable(1, "n"), "<", Literal(Num(5))),
                  Block(<< Block(<< If(Binary(Variable(2, "n"), "==", Literal(Num(3))),
                                       Block(<<ReturnStmt(<<Variable(3, "n")>>)>>), <<>>),
                                    PrintStmt(4, Literal(Str("in"))) >>),
                           PrintStmt(5, Variable(6, "n")),
                           ExprStmt(Assignment(7, "n",
                                       Binary(Variable(8, "n"), "+", Literal(Num(1))))) >>)),
            PrintStmt(9, Literal(Str("end"))) >>),
       PrintStmt(10, Call(Variable(11, "count"), <<Literal(Num(start))>>)),
       function_declaration("bare", <<>>,
         << If(Literal(Bool(TRUE)), ReturnStmt(<<>>), <<>>),
            PrintStmt(12, Literal(Str("no"))) >>),
       PrintStmt(13, Call(Variable(14, "bare"), <<>>)),
       function_declaration("fall", <<>>, <<PrintStmt(15, Literal(Str("fall")))>>),
       PrintStmt(16, Call(Variable(17, "fall"), <<>>)),
       function_declaration("fail", <<>>,
         << While(Literal(Bool(TRUE)),
                  Block(<< Block(<<ExprStmt(Binary(Literal(Nil), "+", Literal(Num(1))))>>),
                           PrintStmt(18, Literal(Str("no"))) >>)),
            PrintStmt(19, Literal(Str("no"))) >>),
       function_declaration("relay", <<>>,
         << If(Literal(Bool(TRUE)), Block(<<ExprStmt(Call(Variable(20, "fail"), <<>>))>>), <<>>),
            PrintStmt(22, Literal(Str("no"))) >>),
       ExprStmt(Call(Variable(23, "relay"), <<>>)),
       PrintStmt(21, Literal(Str("unreached"))) >>

\* class T { init() { this.x = 1; if (this.x == 1) { return; } this.x = 2; }
\*           twice() { return this.init(); } }
\* var t = T();  print(t.x);  print(t.init());  print(t.twice());
InitReturnProgram ==
    << ClassStmt("T", <<>>,
         << FunctionDecl(<<"init">>, <<>>,
              << ExprStmt(Set(This(1), "x", Literal(Num(1)))),
                 If(Binary(Get(This(2), "x"), "==", Literal(Num(1))),
                    Block(<<ReturnStmt(<<>>)>>), <<>>),
                 ExprStmt(Set(This(3), "x", Literal(Num(2)))) >>),
            FunctionDecl(<<"twice">>, <<>>,
              << ReturnStmt(<<Call(Get(This(4), "init"), <<>>)>>) >>) >>),
       VarDeclaration("t", <<Call(Variable(5, "T"), <<>>)>>),
       PrintStmt(6, Get(Variable(7, "t"), "x")),
       PrintStmt(8, Call(Get(Variable(9, "t"), "init"), <<>>)),
       PrintStmt(10, Call(Get(Variable(11, "t"), "twice"), <<>>)) >>

\* fun makeCounter() { var i = 0; fun count() { i = i + 1; print(i); } return count; }
\* var c1 = makeCounter();  var c2 = makeCounter();
\* c1(); (k1 times)  c2(); (k2 times)  c1();
CounterProgram(k1, k2) ==
    << function_declaration("makeCounter", <<>>,
         << VarDeclaration("i", <<Literal(Num(0))>>),
            function_declaration("count", <<>>,
              << ExprStmt(Assignment(1, "i", Binary(Variable(2, "i"), "+", Literal(Num(1))))),
                 PrintStmt(3, Variable(4, "i")) >>),
            ReturnStmt(<<Variable(5, "count")>>) >>),
       VarDeclaration("c1", <<Call(Variable(6, "makeCounter"), <<>>)>>),
       VarDeclaration("c2", <<Call(Variable(7, "makeCounter"), <<>>)>>) >>
    \o [j \in 1..k1 |-> ExprStmt(Call(Variable(100 + j, "c1"), <<>>))]
    \o [j \in 1..k2 |-> ExprStmt(Call(Variable(200 + j, "c2"), <<>>))]
    \o << ExprStmt(Call(Variable(300, "c1"), <<>>)) >>

\* var a = "global";
\* { fun showA() { print(a); }  showA(); (before times)  var a = "block";
\*   showA(); (after times)  print(a); }
ResolvingProgram(before, after) ==
    << VarDeclaration("a", <<Literal(Str("global"))>>),
       Block(<< function_declaration("showA", <<>>, <<PrintStmt(1, Variable(2, "a"))>>) >>
             \o [j \in 1..before |-> ExprStmt(Call(Variable(100 + j, "showA"), <<>>))]
             \o << VarDeclaration("a", <<Literal(Str("block"))>>) >>
             \o [j \in 1..after |-> ExprStmt(Call(Variable(200 + j, "showA"), <<>>))]
             \o << PrintStmt(5, Variable(6, "a")) >>) >>

\* { var a = "outer";
\*   { fun showA() { print(a); }  fun setA() { a = "set"; }
\*     showA();  var a = "inner";  showA();  setA();  showA();  print(a); }
\*   print(a); }
ResolvingLocalProgram ==
    << Block(<< VarDeclaration("a", <<Literal(Str("outer"))>>),
                Block(<< function_declaration("showA", <<>>, <<PrintStmt(1, Variable(2, "a"))>>),
                         function_declaration("setA", <<>>,
                           <<ExprStmt(Assignment(3, "a", Literal(Str("set"))))>>),
                         ExprStmt(Call(Variable(4, "showA"), <<>>)),
                         VarDeclaration("a", <<Literal(Str("inner"))>>),
                         ExprStmt(Call(Variable(5, "showA"), <<>>)),
                         ExprStmt(Call(Variable(6, "setA"), <<>>)),
                         ExprStmt(Call(Variable(7, "showA"), <<>>)),
                         PrintStmt(8, Variable(9, "a")) >>),
                PrintStmt(10, Variable(11, "a")) >>) >>

\* var a = "global a";  var b = "global b";  var c = "global c";
\* { var a = "outer a";  var b = "outer b";
\*   { var a = "inner a";  print(a);  print(b);  print(c); }
\*   print(a);  print(b);  print(c); }
\* print(a);  print(b);  print(c);
BlockProgram ==
    << VarDeclaration("a", <<Literal(Str("global a"))>>),
       VarDeclaration("b", <<Literal(Str("global b"))>>),
       VarDeclaration("c", <<Literal(Str("global c"))>>),
       Block(<< VarDeclaration("a", <<Literal(Str("outer a"))>>),
                VarDeclaration("b", <<Literal(Str("outer b"))>>),
                Block(<< VarDeclaration("a", <<Literal(Str("inner a"))>>),
                         PrintStmt(1, Variable(2, "a")),
                         PrintStmt(3, Variable(4, "b")),
                         PrintStmt(5, Variable(6, "c")) >>),
                PrintStmt(7, Variable(8, "a")),
                PrintStmt(9, Variable(10, "b")),
                PrintStmt(11, Variable(12, "c")) >>),
       PrintStmt(13, Variable(14, "a")),
       PrintStmt(15, Variable(16, "b")),
       PrintStmt(17, Variable(18, "c")) >>

\* var a = 1;  { var a = 2;  print(a); }  print(a);
ShadowProgram ==
    << VarDeclaration("a", <<Literal(Num(1))>>),
       Block(<< VarDeclaration("a", <<Literal(Num(2))>>), PrintStmt(1, Variable(2, "a")) >>),
       PrintStmt(3, Variable(4, "a")) >>

\* class A { method() { print("A method"); print(this.tag); } }
\* class B < A { method() { print("B method"); }  test() { super.method(); } }
\* class C < B {}
\* var c = C();  c.tag = "c";  c.test();
\* var b = B();  b.tag = "b";  b.test();  b.method();
SuperProgram ==
    << ClassStmt("A", <<>>,
         << FunctionDecl(<<"method">>, <<>>,
              << PrintStmt(1, Literal(Str("A method"))),
                 PrintStmt(2, Get(This(3), "tag")) >>) >>),
       ClassStmt("B", <<Variable(4, "A")>>,
         << FunctionDecl(<<"method">>, <<>>, <<PrintStmt(5, Literal(Str("B method")))>>),
            FunctionDecl(<<"test">>, <<>>, <<ExprStmt(Call(Super(6, "method"), <<>>))>>) >>),
       ClassStmt("C", <<Variable(7, "B")>>, <<>>),
       VarDeclaration("c", <<Call(Variable(8, "C"), <<>>)>>),
       ExprStmt(Set(Variable(9, "c"), "tag", Literal(Str("c")))),
       ExprStmt(Call(Get(Variable(10, "c"), "test"), <<>>)),
       VarDeclaration("b", <<Call(Variable(11, "B"), <<>>)>>),
       ExprStmt(Set(Variable(12, "b"), "tag", Literal(Str("b")))),
       ExprStmt(Call(Get(Variable(13, "b"), "test"), <<>>)),
       ExprStmt(Call(Get(Variable(14, "b"), "method"), <<>>)) >>

\* class Rectangle { init(a, b) { this.a = a; this.b = b; }
\*                   area() { return this.a * this.b; } }
\* var r1 = Rectangle(1, 2);  var r2 = Rectangle(3, 4);
\* print(r1.area());  print(r2.area());
\* class Plain {}  var p1 = Plain();  var p2 = Plain();
\* class Child < Rectangle {}  var c = Child(5, 6);  print(c.area());
\* class Early { init() { this.v = 1; return; } }  var e = Early();  print(e.v);
\* var again = r1.init(7, 8);  print(again.a);  print(r1.a);
ConstructorProgram ==
    << ClassStmt("Rectangle", <<>>,
         << FunctionDecl(<<"init">>, <<"a", "b">>,
              << ExprStmt(Set(This(1), "a", Variable(2, "a"))),
                 ExprStmt(Set(This(3), "b", Variable(4, "b"))) >>),
            FunctionDecl(<<"area">>, <<>>,
              << ReturnStmt(<<Binary(Get(This(5), "a"), "*", Get(This(6), "b"))>>) >>) >>),
       VarDeclaration("r1", <<Call(Variable(7, "Rectangle"), <<Literal(Num(1)), Literal(Num(2))>>)>>),
       VarDeclaration("r2", <<Call(Variable(8, "Rectangle"), <<Literal(Num(3)), Literal(Num(4))>>)>>),
       PrintStmt(9, Call(Get(Variable(10, "r1"), "area"), <<>>)),
       PrintStmt(11, Call(Get(Variable(12, "r2"), "area"), <<>>)),
       ClassStmt("Plain", <<>>, <<>>),
       VarDeclaration("p1", <<Call(Variable(13, "Plain"), <<>>)>>),
       VarDeclaration("p2", <<Call(Variable(14, "Plain"), <<>>)>>),
       ClassStmt("Child", <<Variable(15, "Rectangle")>>, <<>>),
       VarDeclaration("c", <<Call(Variable(16, "Child"), <<Literal(Num(5)), Literal(Num(6))>>)>>),
       PrintStmt(17, Call(Get(Variable(18, "c"), "area"), <<>>)),
       ClassStmt("Early", <<>>,
         << FunctionDecl(<<"init">>, <<>>,
              << ExprStmt(Set(This(19), "v", Literal(Num(1)))), ReturnStmt(<<>>) >>) >>),
       VarDeclaration("e", <<Call(Variable(20, "Early"), <<>>)>>),
       PrintStmt(21, Get(Variable(22, "e"), "v")),
       VarDeclaration("again",
         <<Call(Get(Variable(23, "r1"), "init"), <<Literal(Num(7)), Literal(Num(8))>>)>>),
       PrintStmt(24, Get(Variable(25, "again"), "a")),
       PrintStmt(26, Get(Variable(27, "r1"), "a")) >>

\* class P { init(n) { this.n = n; }  show() { print(this.n); } }
\* var x = P("x");  var y = P("y");
\* var m1 = <order[1]>.show;  ..  var mk = <order[k]>.show;
\* m1();  ..  mk();  m1();
BindProgram(order) ==
    << ClassStmt("P", <<>>,
         << FunctionDecl(<<"init">>, <<"n">>, <<ExprStmt(Set(This(1), "n", Variable(2, "n")))>>),
            FunctionDecl(<<"show">>, <<>>, <<PrintStmt(3, Get(This(4), "n"))>>) >>),
       VarDeclaration("x", <<Call(Variable(5, "P"), <<Literal(Str("x"))>>)>>),
       VarDeclaration("y", <<Call(Variable(6, "P"), <<Literal(Str("y"))>>)>>) >>
    \o [j \in 1..Len(order) |->
          VarDeclaration("m" \o NatToStr(j), <<Get(Variable(100 + j, order[j]), "show")>>)]
    \o [j \in 1..Len(order) |->
          ExprStmt(Call(Variable(200 + j, "m" \o NatToStr(j)), <<>>))]
    \o << ExprStmt(Call(Variable(300, "m1"), <<>>)) >>

\* class A { m() { print("A.m"); }  only() { print("A.only"); } }
\* class B < A { m() { print("B.m"); } }
\* class C < B {}
\* var c = C();  c.m();  c.only();
\* c.m = "field";  print(c.m);  c.f = 1;  print(c.f);  c.only();
\* print(c.missing);  print("unreached");
PropertyProgram ==
    << ClassStmt("A", <<>>,
         << FunctionDecl(<<"m">>, <<>>, <<PrintStmt(1, Literal(Str("A.m")))>>),
            FunctionDecl(<<"only">>, <<>>, <<PrintStmt(2, Literal(Str("A.only")))>>) >>),
       ClassStmt("B", <<Variable(3, "A")>>,
         << FunctionDecl(<<"m">>, <<>>, <<PrintStmt(4, Literal(Str("B.m")))>>) >>),
       ClassStmt("C", <<Variable(5, "B")>>, <<>>),
       VarDeclaration("c", <<Call(Variable(6, "C"), <<>>)>>),
       ExprStmt(Call(Get(Variable(7, "c"), "m"), <<>>)),
       ExprStmt(Call(Get(Variable(8, "c"), "only"), <<>>)),
       ExprStmt(Set(Variable(9, "c"), "m", Literal(Str("field")))),
       PrintStmt(10, Get(Variable(11, "c"), "m")),
       ExprStmt(Set(Variable(12, "c"), "f", Literal(Num(1)))),
       PrintStmt(13, Get(Variable(14, "c"), "f")),
       ExprStmt(Call(Get(Variable(15, "c"), "only"), <<>>)),
       PrintStmt(16, Get(Variable(17, "c"), "missing")),
       PrintStmt(18, Literal(Str("unreached"))) >>

\* print("before");  super.m;  print("after");
SuperOutsideClassProgram ==
    << PrintStmt(1, Literal(Str("before"))),
       ExprStmt(Super(2, "m")),
       PrintStmt(3, Literal(Str("after"))) >>

\* print(1 + 2);  print("a" + "b");  "1" + 2;  print("after");
PlusProgram ==
    << PrintStmt(1, Binary(Literal(Num(1)), "+", Literal(Num(2)))),
       PrintStmt(2, Binary(Literal(Str("a")), "+", Literal(Str("b")))),
       ExprStmt(Binary(Literal(Str("1")), "+", Literal(Num(2)))),
       PrintStmt(3, Literal(Str("after"))) >>

\* class A {}  var a = A();  var b = A();  fun f() {}
\* print(f == f);  print(A == A);  print(a == a);  print(a != a);
\* print(a == b);  print(nil == nil);  print(1 == "1");
EqualityProgram ==
    << ClassStmt("A", <<>>, <<>>),
       VarDeclaration("a", <<Call(Variable(1, "A"), <<>>)>>),
       VarDeclaration("b", <<Call(Variable(2, "A"), <<>>)>>),
       function_declaration("f", <<>>, <<>>),
       PrintStmt(3, Binary(Variable(4, "f"), "==", Variable(5, "f"))),
       PrintStmt(6, Binary(Variable(7, "A"), "==", Variable(8, "A"))),
       PrintStmt(9, Binary(Variable(10, "a"), "==", Variable(11, "a"))),
       PrintStmt(12, Binary(Variable(13, "a"), "!=", Variable(14, "a"))),
       PrintStmt(15, Binary(Variable(16, "a"), "==", Variable(17, "b"))),
       PrintStmt(18, Binary(Literal(Nil), "==", Literal(Nil))),
       PrintStmt(19, Binary(Literal(Num(1)), "==", Literal(Str("1")))) >>

\* fun t(x) { print(x); return x; }  print(t(a) or t(b));   (or: and)
LogicalProgram(a, operator, b) ==
    << function_declaration("t", <<"x">>,
          <<PrintStmt(1, Variable(2, "x")), ReturnStmt(<<Variable(3, "x")>>)>>),
       PrintStmt(4, Logical(Call(Variable(5, "t"), <<Literal(a)>>), operator,
                            Call(Variable(6, "t"), <<Literal(b)>>))) >>

\* the operand values of LogicalProgram: the falsy values and truthy ones
LogicalOperands == {Nil, Bool(FALSE), Bool(TRUE), Num(0), Str(""), Str("hi")}

\* all sequences over S of length n
RECURSIVE SeqsOfLen(_, _)
SeqsOfLen(S, n) ==
    IF n = 0 THEN {<<>>}
    ELSE {Append(q, x) : q \in SeqsOfLen(S, n - 1), x \in S}

\* s is one of the programs a run may start from
\* `this` or `super.m` where no class encloses it: a statement of the program,
\* of a block, or of the body of a function
OutsideClassExprs == {This(1), Super(1, "m")}
OutsideClassPlaces == {"top", "block", "function"}
OutsideClassProgram(expr, place) ==
    CASE place = "top" -> <<ExprStmt(expr)>>
      [] place = "block" -> <<Block(<<ExprStmt(expr)>>)>>
      [] place = "function" -> <<function_declaration("f", <<>>, <<ExprStmt(expr)>>)>>

\* a `return`, bare or with a value, at one place of a program: at top level,
\* in a block, after a function declaration, in a function, in a method, in
\* init, in a function declared in init, in a function literal in init, in
\* init after a nested function
ReturnPlaces ==
    {"top", "block", "after function", "function", "method", "init", "nested in init",
     "literal in init", "init after nested"}
ReturnPlaceProgram(place, valued) ==
    LET return == ReturnStmt(IF valued THEN <<Literal(Num(1))>> ELSE <<>>)
        nested == function_declaration("g", <<>>, <<ReturnStmt(<<Literal(Num(2))>>)>>)
        ClassWith(name, body) == <<ClassStmt("T", <<>>, <<FunctionDecl(<<name>>, <<>>, body)>>)>>
    IN CASE place = "top" -> <<return>>
         [] place = "block" -> <<Block(<<return>>)>>
         [] place = "after function" -> <<nested, return>>
         [] place = "function" -> <<function_declaration("f", <<>>, <<return>>)>>
         [] place = "method" -> ClassWith("m", <<return>>)
         [] place = "init" -> ClassWith("init", <<return>>)
         [] place = "nested in init" ->
               ClassWith("init", <<function_declaration("g", <<>>, <<return>>)>>)
         [] place = "literal in init" ->
               ClassWith("init", <<VarDeclaration("g",
                                     <<FunctionExpr(FunctionDecl(<<>>, <<>>, <<return>>))>>)>>)
         [] place = "init after nested" -> ClassWith("init", <<nested, return>>)

\* declarations of one name: twice in a scope (variables, parameters, a
\* parameter and a local of the body, classes, a variable and a class, a
\* variable and a function), twice at global level, and in a scope and an
\* outer one
DeclareCases ==
    {"variables", "parameters", "parameter and local", "classes", "variable and class",
     "variable and function", "global variables", "global classes", "global parameter name",
     "outer variable", "outer parameter", "sibling blocks"}
DeclareProgram(case) ==
    LET var == VarDeclaration("a", <<>>)
        class == ClassStmt("a", <<>>, <<>>)
        Literal_fn(parameters, body) == VarDeclaration("g", <<FunctionExpr(FunctionDecl(<<>>, parameters, body))>>)
    IN CASE case = "variables" -> <<Block(<<var, var>>)>>
         [] case = "parameters" -> <<Literal_fn(<<"a", "a">>, <<>>)>>
         [] case = "parameter and local" -> <<Literal_fn(<<"a">>, <<var>>)>>
         [] case = "classes" -> <<Block(<<class, class>>)>>
         [] case = "variable and class" -> <<Block(<<var, class>>)>>
         [] case = "variable and function" -> <<Block(<<var, function_declaration("a", <<>>, <<>>)>>)>>
         [] case = "global variables" -> <<var, var>>
         [] case = "global classes" -> <<class, class>>
         [] case = "global parameter name" -> <<var, Literal_fn(<<"a">>, <<>>)>>
         [] case = "outer variable" -> <<Block(<<var, Block(<<var>>)>>)>>
         [] case = "outer parameter" -> <<Literal_fn(<<"a">>, <<Block(<<var>>)>>)>>
         [] case = "sibling blocks" -> <<Block(<<var>>), Block(<<var>>)>>

\* variables, assignments, `this` and `super` at known distances: a global g,
\* a in a block, b in a block inside it, a function literal with a parameter
\* inside that, and methods of a class and of a subclass
DistanceProgram ==
    << VarDeclaration("g", <<Literal(Num(0))>>),
       Block(<< VarDeclaration("a", <<Literal(Num(1))>>),
                Block(<< VarDeclaration("b", <<Literal(Num(2))>>),
                         ExprStmt(Variable(1, "a")),
                         ExprStmt(Variable(2, "b")),
                         ExprStmt(Variable(3, "g")),
                         ExprStmt(Assignment(4, "a", Variable(5, "b"))),
                         ExprStmt(Assignment(6, "g", Literal(Num(1)))),
                         VarDeclaration("h", <<FunctionExpr(FunctionDecl(<<>>, <<"p">>,
                            << ExprStmt(Variable(7, "p")),
                               ExprStmt(Variable(8, "a")),
                               ExprStmt(Variable(9, "b")) >>))>>) >>) >>),
       ClassStmt("A", <<>>, <<FunctionDecl(<<"m">>, <<>>, <<ExprStmt(This(10))>>)>>),
       ClassStmt("B", <<Variable(13, "A")>>,
                 <<FunctionDecl(<<"m">>, <<>>,
                     << ExprStmt(Super(11, "m")), ExprStmt(This(12)) >>)>>) >>

\* one named function declared inside a block or inside a function body
SingleFunctionPlaces == {"block", "function"}
SingleFunctionProgram(place) ==
    IF place = "block" THEN <<Block(<<function_declaration("f", <<>>, <<>>)>>)>>
    ELSE <<function_declaration("g", <<>>, <<function_declaration("f", <<>>, <<>>)>>)>>

IsProgram(s) ==
    \/ \E N \in 0..MaxArity, M \in 0..MaxArity : s = ArityFunctionProgram(N, M)
    \/ \E N \in 0..MaxArity, M \in 0..MaxArity : s = ArityClassProgram(N, M)
    \/ \E M \in 0..MaxArity : s = ArityNativeProgram(M)
    \/ \E start \in 1..MaxStart : s = ReturnProgram(start)
    \/ \E k1 \in 0..MaxCalls, k2 \in 0..MaxCalls : s = CounterProgram(k1, k2)
    \/ \E order \in SeqsOfLen({"x", "y"}, MaxBinds) : s = BindProgram(order)
    \/ s = NotCallableProgram
    \/ s = InitReturnProgram
    \/ \E before \in 0..MaxCalls, after \in 0..MaxCalls : s = ResolvingProgram(before, after)
    \/ s = ResolvingLocalProgram
    \/ s = BlockProgram
    \/ s = ShadowProgram
    \/ s = SuperProgram
    \/ s = ConstructorProgram
    \/ s = PropertyProgram
    \/ s = SuperOutsideClassProgram
    \/ s = DistanceProgram
    \/ \E place \in SingleFunctionPlaces : s = SingleFunctionProgram(place)
    \/ \E case \in DeclareCases : s = DeclareProgram(case)
    \/ \E place \in ReturnPlaces, valued \in BOOLEAN : s = ReturnPlaceProgram(place, valued)
    \/ \E expr \in OutsideClassExprs, place \in OutsideClassPlaces : s = OutsideClassProgram(expr, place)
    \/ s = PlusProgram
    \/ s = EqualityProgram
    \/ \E a \in LogicalOperands, b \in LogicalOperands, operator \in {"or", "and"} :
          s = LogicalProgram(a, operator, b)

\* ------------------------------------------------------------------ sources
\* The source texts a run of the driver starts from, each the sequence of its
\* characters.  No generated text holds '/' or '.', so that no number with a
\* fraction is computed.
SourceAlphabet == {"1", "a", "+", ";", " ", "@", "\""}

GeneratedSources == UNION {SeqsOfLen(SourceAlphabet, n) : n \in 0..MaxSourceLen}

\* var a = 1;
CleanSource == <<"v", "a", "r", " ", "a", " ", "=", " ", "1", ";">>
\* the texts appended to CleanSource: nothing, an unknown character, an
\* unterminated string, a statement with a syntax error, one with a runtime
\* error, a second declaration
UnitEndings ==
    {<<>>, <<" ", "@">>, <<" ", "\"", "a", "b">>, <<" ", "1", " ", "+", ";">>,
     <<" ", "b", ";">>, <<" ", "v", "a", "r", " ", "b", " ", "=", " ", "a", " ", "+", " ", "1", ";">>}

\* statements with one syntax error each
BadStatements == {<<"1", " ", "+", ";">>, <<"(", "1", ";">>, <<"v", "a", "r", " ", "1", ";">>}
\* two statements with a syntax error each, and a good one after them
TwoErrorsSource(first, second) == first \o <<" ">> \o second \o <<" ", "v", "a", "r", " ", "a", " ", "=", " ", "1", ";">>

\* the left-hand sides of AssignSource: a variable, properties, a literal, a
\* grouping, a call, binary, unary and logical expressions, a string, this
AssignmentTargets ==
    {<<"a">>, <<"a", ".", "b">>, <<"a", ".", "b", ".", "c">>, <<"a", "(", ")", ".", "b">>, <<"1">>, <<"(", "a", ")">>,
     <<"a", "(", ")">>, <<"a", " ", "+", " ", "b">>, <<"-", "a">>, <<"a", " ", "o", "r", " ", "b">>, <<"\"", "s", "\"">>, <<"t", "h", "i", "s">>,
     <<"a", " ", "=", "=", " ", "b">>, <<"n", "i", "l">>}
\* <target> = 1;
AssignSource(target) == target \o <<" ", "=", " ", "1", ";">>
\* a = b = c;
AssignChainSource == <<"a", " ", "=", " ", "b", " ", "=", " ", "c", ";">>

\* the binary operators of the four levels
BinaryOperators ==
    {<<"=", "=">>, <<"!", "=">>, <<"<">>, <<"<", "=">>, <<">">>, <<">", "=">>, <<"+">>,
     <<"-">>, <<"*">>, <<"/">>}
\* 1 op1 2 op2 3
ChainSource(op1, op2) == <<"1">> \o op1 \o <<"2">> \o op2 \o <<"3">>
\* u 1 op 2, u one of the unary operators
UnaryChainSource(u, op) == <<u, "1">> \o op \o <<"2">>
\* (1+2)*3
GroupingSource == <<"(", "1", "+", "2", ")", "*", "3">>

\* 2 < 3 ? 4 : 5
TernarySource == <<"2", " ", "<", " ", "3", " ", "?", " ", "4", " ", ":", " ", "5">>

\* texts without a token: a comment, white space, an open block comment
EmptySources == {<<"/", "/", " ", "t", "h", "i", "s", " ", "i", "s", " ", "a", " ", "c", "o", "m", "m", "e", "n", "t">>, <<" ", "\t", "\r", "\n", " ">>, <<"/", "*", " ", "o", "p", "e", "n">>, <<"/", "*", " ", "a", " ", "*", "/", " ", "/", "/", " ", "b">>}

\* texts for the scanner alone: numbers, operators, punctuation, keywords,
\* identifiers, strings; none of them is a program the parser accepts
LexicalSources ==
    {<<"1", ".", "5", " ", "1", "2", ".", " ", "1", ".", "a", " ", "1", "0", ".", "5", "0">>,
     <<"<", "=", " ", ">", "=", " ", "!", "=", " ", "=", "=", " ", "=", " ", "!", " ", "<", " ", ">">>,
     <<"(", ")", "{", "}", ",", ".", "-", "+", ";", "*", "/">>,
     <<"a", "n", "d", " ", "c", "l", "a", "s", "s", " ", "e", "l", "s", "e", " ", "f", "a", "l", "s", "e", " ", "f", "o", "r", " ", "f", "u", "n">>,
     <<"i", "f", " ", "n", "i", "l", " ", "o", "r", " ", "p", "r", "i", "n", "t", " ", "r", "e", "t", "u", "r", "n", " ", "s", "u", "p", "e", "r">>,
     <<"t", "h", "i", "s", " ", "t", "r", "u", "e", " ", "v", "a", "r", " ", "w", "h", "i", "l", "e">>,
     <<"v", "a", "r", "i", "a", "b", "l", "e", " ", "a", "1", " ", "a", "_", "b", " ", "c", "l", "a", "s", "s", "y">>,
     <<"\"", "a", " ", "b", "\"", " ", "\"", "\"", " ", "\"", "a", "\n", "b", "\"", " ", "x">>,
     <<"1", "+", "\"", "s", "\"", "+", "a", "<", "=", "b", "/", "/", " ", "c">>}

\* a counter n, a text t, a condition c that appends "c" to t and holds while
\* n < 2, and a step s that appends "s" to t and adds one to n
ForPrelude ==
    <<"v", "a", "r", " ", "n", " ", "=", " ", "0", ";", " ", "v", "a", "r", " ", "t", " ", "=", " ", "\"", "\"", ";", " ", "f", "u", "n", " ", "c", "(", ")", " ", "{", " ", "t", " ", "=", " ", "t", " ", "+", " ", "\"", "c", "\"", ";", " ", "r", "e", "t", "u", "r", "n", " ", "n", " ", "<", " ", "2", ";", " ", "}", " ", "f", "u", "n", " ", "s", "(", ")", " ", "{", " ", "t", " ", "=", " ", "t", " ", "+", " ", "\"", "s", "\"", ";", " ", "n", " ", "=", " ", "n", " ", "+", " ", "1", ";", " ", "}", " ">>
\* the for loop with or without initializer, condition and increment; the
\* initializer appends "i" to t and the body "b"; the body counts by itself
\* when there is no increment, and fails at n = 2 when there is no condition
\* to end the loop
ForSource(init, cond, incr) ==
    ForPrelude \o <<"f", "o", "r", " ", "(">>
        \o (IF init THEN <<"t", " ", "=", " ", "t", " ", "+", " ", "\"", "i", "\"", ";">> ELSE <<";">>)
        \o (IF cond THEN <<"c", "(", ")", ";">> ELSE <<";">>)
        \o (IF incr THEN <<"s", "(", ")">> ELSE <<>>)
        \o <<")", " ", "{", " ", "t", " ", "=", " ", "t", " ", "+", " ", "\"", "b", "\"", ";", " ">>
        \o (IF incr THEN <<>> ELSE <<"n", " ", "=", " ", "n", " ", "+", " ", "1", ";", " ">>)
        \o (IF cond THEN <<>> ELSE <<"i", "f", " ", "(", "n", " ", "=", "=", " ", "2", ")", " ", "n", "i", "l", " ", "+", " ", "1", ";", " ">>)
        \o <<"}">>
ForSources == {ForSource(init, cond, incr) : init \in BOOLEAN, cond \in BOOLEAN, incr \in BOOLEAN}

Sources ==
    GeneratedSources
        \cup {CleanSource \o ending : ending \in UnitEndings}
        \cup {TwoErrorsSource(first, second) : first \in BadStatements, second \in BadStatements}
        \cup {AssignSource(target) : target \in AssignmentTargets} \cup {AssignChainSource}
        \cup {ChainSource(op1, op2) : op1 \in BinaryOperators, op2 \in BinaryOperators}
        \cup {UnaryChainSource(u, op) : u \in {"-", "!"}, op \in BinaryOperators}
        \cup {GroupingSource, TernarySource} \cup EmptySources \cup LexicalSources \cup ForSources

\* the lines submitted to the prompt: declarations, bare expressions, an
\* assignment as expression and as statement, one with an unknown character
\* after it, a syntax error and a runtime error
ReplLine ==
    [declare_a |-> <<"v", "a", "r", " ", "a", " ", "=", " ", "1", ";">>,
     read_a |-> <<"a">>,
     declare_n |-> <<"v", "a", "r", " ", "n", " ", "=", " ", "0", ";">>,
     count |-> <<"n", " ", "=", " ", "n", " ", "+", " ", "1">>,
     count_statement |-> <<"n", " ", "=", " ", "n", " ", "+", " ", "1", ";">>,
     count_unknown |-> <<"n", " ", "=", " ", "n", " ", "+", " ", "1", " ", "@">>,
     syntax_error |-> <<"1", " ", "+">>,
     runtime_error |-> <<"n", "i", "l", " ", "+", " ", "1">>,
     difference |-> <<"2", "-", "1">>]

ReplLines == {ReplLine[k] : k \in DOMAIN ReplLine}

\* ------------------------------------------------------------------ state
VARIABLES
    statements,         \* the parsed program (the tree handed to resolve and interpret)
    phase,              \* "parsed", "resolved", "finished" or "panicked"; in the driver
                        \* "scanning", "scanned", "interpreting", "finished", "panicked"
    pc,                 \* index of the next top-level statement of Interpreter::interpret
    envs,               \* every Environment allocated; envs[1] is Interpreter::globals
    functions,          \* every Function object allocated
    classes,            \* every Class object allocated
    instances,          \* every Instance object allocated
    output,             \* lines written to Interpreter::output
    locals,             \* Interpreter::locals
    had_error,          \* ErrorReporter::had_error
    had_runtime_error,  \* ErrorReporter::had_runtime_error
    stderr,             \* messages of the diagnostics ErrorReporter writes (no line part)
    trace,              \* history of statement executions and calls
    depth,              \* history: number of active Function::call activations
    scanner,            \* the driver's ScanTokens iterator (source, start, current, ..)
    tokens              \* the driver's tokens collected from the iterator so far

vars == <<statements, phase, pc, envs, functions, classes, instances, output, locals,
          had_error, had_runtime_error, stderr, trace, depth, scanner, tokens>>

\* the interpreter's heap as one record, as the operators above take it
Store ==
    [envs |-> envs, functions |-> functions, classes |-> classes, instances |-> instances,
     output |-> output, locals |-> locals, trace |-> trace, depth |-> depth]

\* Interpreter::new_with_output, ErrorReporter::new
Init ==
    /\ IsProgram(statements)
    /\ phase = "parsed"
    /\ pc = 1
    /\ envs = << [enclosing |-> 0,
                  values |-> Put(Put(EmptyMap, "clock", NativeV("clock")),
                                 "print", NativeV("print"))] >>
    /\ functions = <<>>
    /\ classes = <<>>
    /\ instances = <<>>
    /\ output = <<>>
    /\ locals = EmptyMap
    /\ had_error = FALSE
    /\ had_runtime_error = FALSE
    /\ stderr = <<>>
    /\ trace = <<>>
    /\ depth = 0
    /\ scanner = ScanTokens_new(<<>>)
    /\ tokens = <<>>

SetStore(st) ==
    /\ envs' = st.envs
    /\ functions' = st.functions
    /\ classes' = st.classes
    /\ instances' = st.instances
    /\ output' = st.output
    /\ trace' = st.trace
    /\ depth' = st.depth

\* Resolver::new(..).resolve(&tree)
Resolve ==
    /\ phase = "parsed"
    /\ LET rs == resolve_stmts([scopes |-> <<>>, current_function |-> "None",
                                current_class |-> "None", locals |-> locals,
                                had_error |-> had_error, diagnostics |-> <<>>],
                               statements)
       IN /\ locals' = rs.locals
          /\ had_error' = rs.had_error
          /\ stderr' = stderr \o rs.diagnostics
    /\ phase' = "resolved"
    /\ UNCHANGED <<scanner, tokens, statements, pc, envs, functions, classes, instances, output,
                   had_runtime_error, trace, depth>>

\* the result of executing the statement interpret is at
Step == execute(Store, statements[pc], 1)

\* one iteration of the loop of Interpreter::interpret that does not fail
InterpretStatement ==
    /\ phase = "resolved"
    /\ pc <= Len(statements)
    /\ Step.kind \in {"ok", "return"}
    /\ SetStore(Step.st)
    /\ pc' = pc + 1
    /\ UNCHANGED <<scanner, tokens, statements, phase, locals, had_error, had_runtime_error, stderr>>

\* InterpretRuntimeError that reports the error and goes on with the loop
InterpretRuntimeError_continue ==
    /\ phase = "resolved"
    /\ pc <= Len(statements)
    /\ Step.kind = "err"
    /\ SetStore(Step.st)
    /\ stderr' = Append(stderr, Step.err)
    /\ had_runtime_error' = TRUE
    /\ pc' = pc + 1
    /\ UNCHANGED <<scanner, tokens, statements, phase, locals, had_error>>

\* the iteration that meets a runtime error: report it and return
InterpretRuntimeError ==
    /\ phase = "resolved"
    /\ pc <= Len(statements)
    /\ Step.kind = "err"
    /\ SetStore(Step.st)
    /\ stderr' = Append(stderr, Step.err)
    /\ had_runtime_error' = TRUE
    /\ phase' = "finished"
    /\ UNCHANGED <<scanner, tokens, statements, pc, locals, had_error>>

\* a panic inside execute unwinds through interpret and aborts the host
InterpretPanic ==
    /\ phase = "resolved"
    /\ pc <= Len(statements)
    /\ Step.kind = "panic"
    /\ SetStore(Step.st)
    /\ phase' = "panicked"
    /\ UNCHANGED <<scanner, tokens, statements, pc, locals, had_error, had_runtime_error, stderr>>

\* the loop of interpret is exhausted
InterpretReturn ==
    /\ phase = "resolved"
    /\ pc > Len(statements)
    /\ phase' = "finished"
    /\ UNCHANGED <<scanner, tokens, statements, pc, envs, functions, classes, instances, output, locals,
                   had_error, had_runtime_error, stderr, trace, depth>>

Next ==
    \/ Resolve
    \/ InterpretStatement
    \/ InterpretRuntimeError
    \/ InterpretPanic
    \/ InterpretReturn

Spec == Init /\ [][Next]_vars

\* ------------------------------------------------------------------ lox.rs
\* Lox::new, and the scanner of Lox::run on one of the source texts
DriverInit ==
    /\ scanner \in {ScanTokens_new(source) : source \in Sources}
    /\ tokens = <<>>
    /\ statements = <<>>
    /\ phase = "scanning"
    /\ pc = 1
    /\ envs = << [enclosing |-> 0,
                  values |-> Put(Put(EmptyMap, "clock", NativeV("clock")),
                                 "print", NativeV("print"))] >>
    /\ functions = <<>>
    /\ classes = <<>>
    /\ instances = <<>>
    /\ output = <<>>
    /\ locals = EmptyMap
    /\ had_error = FALSE
    /\ had_runtime_error = FALSE
    /\ stderr = <<>>
    /\ trace = <<>>
    /\ depth = 0

\* scan_tokens(&source).collect(): one iteration of the loop of Iterator::next,
\* its token (if any) pushed by collect; next yields nothing only at the end
\* with the end-of-input token consumed, and collect ends there
ScanStep ==
    /\ phase = "scanning"
    /\ LET r == next_iteration(scanner)
       IN /\ scanner' = r.sc
          /\ tokens' = tokens \o r.token
          /\ stderr' = stderr \o r.errors
          /\ had_error' = (had_error \/ r.errors # <<>>)
          /\ phase' = IF ScanTokens_is_at_end(scanner) /\ r.token = <<>>
                      THEN "scanned" ELSE "scanning"
    /\ UNCHANGED <<statements, pc, envs, functions, classes, instances, output, locals,
                   had_runtime_error, trace, depth>>

\* RunParse without the test of had_error
RunParse_ungated ==
    /\ phase = "scanned"
    /\ LET r == parse(Parser_new(tokens))
       IN /\ statements' = IF r.kind = "ok" THEN r.val ELSE <<>>
          /\ stderr' = stderr \o r.p.errors
          /\ had_error' = (had_error \/ r.p.errors # <<>>)
          /\ phase' = "interpreting"
    /\ UNCHANGED <<scanner, tokens, pc, envs, functions, classes, instances, output, locals,
                   had_runtime_error, trace, depth>>

\* Parser::new(tokens, ..).parse().unwrap_or_default(), then the test of
\* had_error that ends Lox::run
RunParse ==
    /\ phase = "scanned"
    /\ LET r == parse(Parser_new(tokens))
       IN /\ statements' = IF r.kind = "ok" THEN r.val ELSE <<>>
          /\ stderr' = stderr \o r.p.errors
          /\ had_error' = (had_error \/ r.p.errors # <<>>)
          /\ phase' = IF had_error \/ r.p.errors # <<>> THEN "finished" ELSE "interpreting"
    /\ UNCHANGED <<scanner, tokens, pc, envs, functions, classes, instances, output, locals,
                   had_runtime_error, trace, depth>>

\* Interpreter::interpret as one call: the statements from the i-th on
RECURSIVE interpret(_, _, _)
interpret(st, stmts, i) ==
    LET Executed(r) ==
           IF r.kind \in {"ok", "return"} THEN interpret(r.st, stmts, i + 1)
           ELSE [kind |-> r.kind, err |-> r.err, st |-> r.st, pc |-> i]
    IN IF i > Len(stmts) THEN [kind |-> "ok", err |-> "", st |-> st, pc |-> i]
       ELSE Executed(execute(st, stmts[i], 1))

\* self.interpreter.interpret(&statements)
RunInterpret ==
    /\ phase = "interpreting"
    /\ LET r == interpret(Store, statements, 1)
       IN /\ SetStore(r.st)
          /\ pc' = r.pc
          /\ stderr' = IF r.kind = "err" THEN Append(stderr, r.err) ELSE stderr
          /\ had_runtime_error' = (r.kind = "err")
          /\ phase' = IF r.kind = "panic" THEN "panicked" ELSE "finished"
    /\ UNCHANGED <<scanner, tokens, statements, locals, had_error>>

DriverNext ==
    \/ ScanStep
    \/ RunParse
    \/ RunInterpret

DriverSpec == DriverInit /\ [][DriverNext]_vars

\* the driver with the loop of collect running on: while the scanner has a
\* step to take, the step is taken
DriverFairSpec == DriverInit /\ [][DriverNext]_vars /\ WF_vars(ScanStep)

\* Interpreter::evaluate_and_print: the expression evaluated in the globals
\* and its value written to the output
evaluate_and_print(st, expr) ==
    LET Printed(r) ==
           IF r.kind = "ok"
           THEN [kind |-> "ok", err |-> "",
                 st |-> [r.st EXCEPT !.output = Append(@, Display(r.st, r.val))]]
           ELSE [kind |-> r.kind, err |-> r.err, st |-> r.st]
    IN Printed(evaluate(st, expr, 1))

\* what a part of run_interactively leaves: Ok, Err or a panic, the store,
\* the two flags of the error reporter and the diagnostics printed
Ran(kind, st, flag, runtime_flag, diagnostics, stmts) ==
    [kind |-> kind, st |-> st, had_error |-> flag, had_runtime_error |-> runtime_flag,
     diagnostics |-> diagnostics, statements |-> stmts]

\* Lox::try_evaluate_expression: the line scanned, Parser::expression, and
\* the expression (if there is one) evaluated and printed
try_evaluate_expression(st, source) ==
    LET Tried(scanned, expr) ==
           LET flag == scanned.errors # <<>> \/ expr.p.errors # <<>>
               diagnostics == scanned.errors \o expr.p.errors
               Evaluated(r) ==
                  Ran(r.kind, r.st, flag, r.kind = "err",
                      IF r.kind = "err" THEN Append(diagnostics, r.err) ELSE diagnostics, <<>>)
           IN IF expr.kind = "ok" THEN Evaluated(evaluate_and_print(st, expr.val))
              ELSE Ran("ok", st, flag, FALSE, diagnostics, <<>>)
        Parsed(scanned) == Tried(scanned, expression(Parser_new(scanned.tokens)))
    IN Parsed(scan_tokens(source))

\* ErrorReporter::run_without_printing_error: the closure's result and the
\* flags it set, with nothing printed
run_without_printing_error(result) == [result EXCEPT !.diagnostics = <<>>]

\* Lox::run as one call
run(st, source) ==
    LET Interpreted(flag, diagnostics, stmts, r) ==
           Ran(IF r.kind = "panic" THEN "panic" ELSE "ok", r.st, flag, r.kind = "err",
               IF r.kind = "err" THEN Append(diagnostics, r.err) ELSE diagnostics, stmts)
        Parsed(scanned, r) ==
           LET flag == scanned.errors # <<>> \/ r.p.errors # <<>>
               stmts == IF r.kind = "ok" THEN r.val ELSE <<>>
           IN IF flag THEN Ran("ok", st, TRUE, FALSE, scanned.errors \o r.p.errors, stmts)
              ELSE Interpreted(FALSE, <<>>, stmts, interpret(st, stmts, 1))
        Scanned_(scanned) == Parsed(scanned, parse(Parser_new(scanned.tokens)))
    IN Scanned_(scan_tokens(source))

\* ErrorReporter::reset on what a part of run_interactively leaves
reset(result) == [result EXCEPT !.had_error = FALSE, !.had_runtime_error = FALSE]

\* run_interactively that runs the line as a program whether or not the
\* expression reported a diagnostic
run_interactively_always_run(st, line) ==
    LET Handled(result) ==
           IF result.kind = "panic" THEN result
           ELSE IF result.kind = "err" THEN reset(result)
           ELSE reset(run(result.st, line))
    IN Handled(run_without_printing_error(try_evaluate_expression(st, line)))

\* Lox::run_interactively
run_interactively(st, line) ==
    LET Handled(result) ==
           IF result.kind = "panic" THEN result
           ELSE IF result.kind = "err" THEN reset(result)
           ELSE IF result.had_error THEN reset(run(result.st, line))
           ELSE reset(result)
    IN Handled(run_without_printing_error(try_evaluate_expression(st, line)))

\* Lox::new, at the prompt
ReplInit ==
    /\ scanner = ScanTokens_new(<<>>)
    /\ tokens = <<>>
    /\ statements = <<>>
    /\ phase = "prompt"
    /\ pc = 1
    /\ envs = << [enclosing |-> 0,
                  values |-> Put(Put(EmptyMap, "clock", NativeV("clock")),
                                 "print", NativeV("print"))] >>
    /\ functions = <<>>
    /\ classes = <<>>
    /\ instances = <<>>
    /\ output = <<>>
    /\ locals = EmptyMap
    /\ had_error = FALSE
    /\ had_runtime_error = FALSE
    /\ stderr = <<>>
    /\ trace = <<>>
    /\ depth = 0

\* run_prompt: one line read and handed to run_interactively; scanner and
\* tokens keep the line and its tokens, pc counts the lines
Submit ==
    /\ phase = "prompt"
    /\ pc <= MaxSubmissions
    /\ \E line \in ReplLines :
          LET Done(r) ==
                 /\ SetStore(r.st)
                 /\ statements' = r.statements
                 /\ stderr' = stderr \o r.diagnostics
                 /\ had_error' = r.had_error
                 /\ had_runtime_error' = r.had_runtime_error
                 /\ phase' = IF r.kind = "panic" THEN "panicked" ELSE "prompt"
          IN /\ scanner' = scan_tokens(line).sc
             /\ tokens' = scan_tokens(line).tokens
             /\ Done(run_interactively(Store, line))
    /\ pc' = pc + 1
    /\ UNCHANGED locals

ReplNext == Submit

ReplSpec == ReplInit /\ [][ReplNext]_vars

\* ------------------------------------------------------------------ properties
\* every callable value the heap st holds
Callables(st) ==
    {FunctionV(f) : f \in 1..Len(st.functions)} \cup {ClassV(c) : c \in 1..Len(st.classes)}
        \cup {NativeV("clock"), NativeV("print")}

ExpectedArguments(N, M) ==
    "Expected " \o NatToStr(N) \o " arguments but got " \o NatToStr(M) \o "."

\* C1: a call that supplies M arguments to a callable of arity N, M # N,
\* fails with exactly "Expected N arguments but got M." and leaves the whole
\* store as it was (no frame, no instance, no output, no call entered).
\* Checked for every callable of every reachable heap, and on the runs of
\* the programs that make such a call: nothing of the callee's body and
\* nothing after the failing call is printed.
ArityMismatchFails ==
    /\ \A callee \in Callables(Store) : \A M \in 0..(MaxArity + 1) :
          M # arity(Store, callee) =>
             evaluate_call(Store, Literal(callee), Arguments(M), 1)
               = Err(Store, ExpectedArguments(arity(Store, callee), M))
    /\ \A N \in 0..MaxArity : \A M \in 0..MaxArity :
          (phase = "finished" /\ N # M) =>
             /\ statements = ArityFunctionProgram(N, M) =>
                   /\ output = <<"before">>
                   /\ stderr = <<ExpectedArguments(N, M)>>
                   /\ Len(envs) = 2
             /\ statements = ArityClassProgram(N, M) =>
                   /\ output = <<"before">>
                   /\ stderr = <<ExpectedArguments(N, M)>>
                   /\ Len(envs) = 1 /\ instances = <<>>
    /\ \A M \in 0..MaxArity :
          (phase = "finished" /\ statements = ArityNativeProgram(M)) =>
             /\ output = IF M = 1 THEN <<"1">> ELSE <<>>
             /\ stderr = IF M = 1 THEN <<ExpectedArguments(0, 1)>>
                          ELSE <<ExpectedArguments(1, M)>>

\* a function of arity 2 was called with one argument
ArityMismatchSeen ==
    /\ statements = ArityFunctionProgram(2, 1)
    /\ phase = "finished"
    /\ had_runtime_error
    /\ stderr = <<"Expected 2 arguments but got 1.">>

\* C2: when top-level statement k ends in a runtime error, interpret
\* reports it once (one line more on stderr), sets had_runtime_error, leaves
\* had_error alone and returns (phase "finished", not "panicked") with pc
\* still at k; after interpret has returned nothing changes any more, so no
\* statement after k is executed.
RuntimeErrorStopsUnit ==
    [][ /\ (phase = "resolved" /\ pc <= Len(statements) /\ Step.kind = "err") =>
             /\ phase' = "finished"
             /\ pc' = pc
             /\ stderr' = Append(stderr, Step.err)
             /\ had_runtime_error' = TRUE
             /\ had_error' = had_error
             /\ output' = Step.st.output
        /\ phase = "finished" => UNCHANGED vars ]_vars

\* interpret has returned after a runtime error with statements left over
RuntimeErrorSeen ==
    /\ phase = "finished"
    /\ had_runtime_error
    /\ pc < Len(statements)
    /\ Len(stderr) >= 1

\* the "enter" event of the activation that the event at index i belongs to
EnterOf(i) ==
    LET before == {j \in 1..(i - 1) : trace[j].ev = "enter" /\ trace[j].depth = trace[i].depth}
    IN CHOOSE j \in before : \A k \in before : k <= j

\* the activation of the event at index i runs an `init` method
InInitializer(i) == functions[trace[EnterOf(i)].val.n].is_initializer

\* the instance an activation of an `init` method is bound to
BoundThis(i) == envs[functions[trace[EnterOf(i)].val.n].closure].values["this"]

\* a return statement executed inside a call is followed at once by the exit
\* from that call (no statement and no loop iteration in between), and the
\* exit is a normal one
ReturnLeavesCall ==
    \A i \in 1..Len(trace) :
       (trace[i].ev = "return" /\ trace[i].depth >= 1) =>
          /\ i < Len(trace)
          /\ trace[i + 1].ev = "exit"
          /\ trace[i + 1].depth = trace[i].depth
          /\ trace[i + 1].how = "ok"

\* a call that fails leaves at once every call it was made from, up to the
\* top level, where the unit ends
ErrorLeavesCalls ==
    \A i \in 1..Len(trace) :
       (trace[i].ev = "exit" /\ trace[i].how = "err") =>
          IF trace[i].depth = 1 THEN i = Len(trace) /\ phase = "finished" /\ had_runtime_error
          ELSE /\ i < Len(trace)
               /\ trace[i + 1] = Event("exit", trace[i].depth - 1, "err", Nil)

\* the result of the call that exits normally at index i is the value of the
\* return statement that ended it, nil when no return statement did
ResultIsReturned(i) ==
    IF trace[i - 1].ev = "return" /\ trace[i - 1].depth = trace[i].depth
    THEN trace[i].val = trace[i - 1].val
    ELSE trace[i].val = Nil

NormalExits == {i \in 1..Len(trace) : trace[i].ev = "exit" /\ trace[i].how = "ok"}

RECURSIVE CountOutput(_)
CountOutput(n) ==
    IF n >= 5 THEN <<"end", "nil">>
    ELSE IF n = 3 THEN <<"3">>
    ELSE <<"in", NatToStr(n)>> \o CountOutput(n + 1)

ReturnProgramOutput ==
    \A start \in 1..MaxStart :
       (statements = ReturnProgram(start) /\ phase = "finished") =>
          /\ output = CountOutput(start) \o <<"nil", "fall", "nil">>
          /\ stderr = <<"Operands must be two numbers or two string.">>

\* C3 as stated: a return at any nesting depth of a function body ends every
\* enclosing statement, and the result of every call is exactly the returned
\* value, nil for a bare return and for a body that completes without a
\* return; a runtime error leaves the calls the same way.
ReturnValueIsCallResult ==
    /\ ReturnLeavesCall
    /\ ErrorLeavesCalls
    /\ \A i \in NormalExits : ResultIsReturned(i)

\* C3 amended: the same, where the result rule is that of every function
\* that is not an `init` method; the call of an `init` method yields the
\* instance the method is bound to, whatever its body returns.
ReturnValueIsCallResultUnlessInit ==
    /\ ReturnLeavesCall
    /\ ErrorLeavesCalls
    /\ \A i \in NormalExits :
          IF InInitializer(i) THEN trace[i].val = BoundThis(i) /\ trace[i].val.t = "instance"
          ELSE ResultIsReturned(i)
    /\ ReturnProgramOutput

\* count(1) has returned 3 from inside the if, the two blocks and the loop
ReturnFromNestedSeen ==
    /\ statements = ReturnProgram(1)
    /\ output = <<"in", "1", "in", "2", "3">>
    /\ \E i \in 1..Len(trace) : trace[i] = Event("return", 1, "", Num(3))

\* what CounterProgram(k1, k2) prints when every closure keeps its own frame
CounterOutput(k1, k2) ==
    [j \in 1..k1 |-> NatToStr(j)] \o [j \in 1..k2 |-> NatToStr(j)] \o <<NatToStr(k1 + 1)>>

Min(a, b) == IF a <= b THEN a ELSE b
Max(a, b) == IF a >= b THEN a ELSE b

\* C4: a function value keeps the frame its literal was evaluated in, and
\* every call reads and writes that frame: in CounterProgram(k1, k2) the
\* n-th call of a closure prints n, the frame of each closure holds the
\* number of calls made of it so far, and the closures of the two
\* makeCounter calls have different frames.
ClosureKeepsFrame ==
    \A k1 \in 0..MaxCalls : \A k2 \in 0..MaxCalls :
       (statements = CounterProgram(k1, k2) /\ phase # "parsed" /\ pc >= 4) =>
          LET c1 == envs[1].values["c1"]
              c2 == envs[1].values["c2"]
              done == pc - 4
          IN /\ phase # "panicked" /\ ~had_runtime_error
             /\ output = SubSeq(CounterOutput(k1, k2), 1, done)
             /\ c1.t = "function" /\ c2.t = "function"
             /\ functions[c1.n].closure # functions[c2.n].closure
             /\ envs[functions[c1.n].closure].values["i"]
                   = Num(Min(done, k1) + (IF done > k1 + k2 THEN 1 ELSE 0))
             /\ envs[functions[c2.n].closure].values["i"] = Num(Min(Max(done - k1, 0), k2))

\* c1 was called, then c2, then c1 again
CounterSeen ==
    /\ statements = CounterProgram(1, 1)
    /\ phase = "finished"
    /\ output = <<"1", "1", "2">>

\* C5: a variable reference in a function body denotes the binding visible
\* where the reference is written: showA reads the global `a` on every
\* call, before and after `var a` is declared in the enclosing block, and
\* in the nested variant showA and setA keep using the outer block's `a`.
LexicalResolution ==
    /\ \A before \in 0..MaxCalls : \A after \in 0..MaxCalls :
          statements = ResolvingProgram(before, after) =>
             /\ phase # "panicked"
             /\ phase = "finished" =>
                   /\ ~had_runtime_error
                   /\ output = [j \in 1..(before + after) |-> "global"] \o <<"block">>
    /\ statements = ResolvingLocalProgram =>
          /\ phase # "panicked"
          /\ phase = "finished" =>
                /\ ~had_runtime_error
                /\ output = <<"outer", "outer", "set", "inner", "set">>

\* showA was called once before and once after the declaration of the block's `a`
ResolvingSeen ==
    /\ statements = ResolvingProgram(1, 1)
    /\ phase = "finished"
    /\ output = <<"global", "global", "block">>

\* C6: executing a block creates one new frame whose parent is the current
\* frame, and a `var` declaration in the block defines the name in that
\* frame only, every existing frame staying as it was (checked from every
\* frame of every reachable heap); reads in the block see the inner binding
\* and reads after it the outer one with its old value.
BlockDefinesInNewFrame ==
    /\ \A e \in 1..Len(envs) : \A name \in {"a", "fresh"} :
          LET r == execute_block_stmt(Store, <<VarDeclaration(name, <<Literal(Num(7))>>)>>, e)
          IN /\ r.kind = "ok"
             /\ Len(r.st.envs) = Len(envs) + 1
             /\ SubSeq(r.st.envs, 1, Len(envs)) = envs
             /\ r.st.envs[Len(envs) + 1] = [enclosing |-> e, values |-> Put(EmptyMap, name, Num(7))]
    /\ statements = ShadowProgram =>
          /\ (phase = "resolved" /\ pc >= 3) =>
                /\ envs[1].values["a"] = Num(1)
                /\ envs[2] = [enclosing |-> 1, values |-> Put(EmptyMap, "a", Num(2))]
          /\ phase = "finished" => output = <<"2", "1">>
    /\ (statements = BlockProgram /\ phase = "finished") =>
          output = <<"inner a", "outer b", "global c", "outer a", "outer b", "global c",
                     "global a", "global b", "global c">>

\* the block of ShadowProgram has run and the outer `a` has been printed
ShadowSeen ==
    /\ statements = ShadowProgram
    /\ phase = "finished"
    /\ output = <<"2", "1">>
    /\ Len(envs) = 2

\* C7: `super.method` in B.test starts the lookup at A, the superclass of
\* the class the method is written in, also when the receiver is an
\* instance of C < B, and binds the method to the receiver: c.test() prints
\* "A method" and then the tag of the C instance.
SuperStartsAtTextualSuperclass ==
    statements = SuperProgram =>
       /\ phase # "panicked" /\ ~had_runtime_error
       /\ (phase # "parsed" /\ pc >= 7) =>
             /\ Len(output) >= 2
             /\ SubSeq(output, 1, 2) = <<"A method", "c">>
             /\ classes[instances[envs[1].values["c"].n].class].name = "C"
       /\ phase = "finished" => output = <<"A method", "c", "A method", "b", "B method">>

\* c.test() has run
SuperCallSeen ==
    /\ statements = SuperProgram
    /\ pc = 7
    /\ output = <<"A method", "c">>

\* N argument values
ArgumentValues(N) == [j \in 1..N |-> Num(j)]

\* the activations of `init` methods that st has entered after the first
\* `from` events of its history
InitEntered(st, from) ==
    {i \in (from + 1)..Len(st.trace) :
        st.trace[i].ev = "enter" /\ st.functions[st.trace[i].val.n].is_initializer}

\* C8: calling a class with as many arguments as its arity yields a newly
\* allocated instance of that class (one instance more, the earlier ones
\* untouched); `init`, own or inherited, is entered exactly once, bound to
\* the new instance, and never when the class has none; whatever `init`
\* returns, the call yields the instance; and calling `init` on an existing
\* instance yields that instance.  Checked for every class and instance of
\* every reachable heap, and on the constructor programs.
ClassCallYieldsFreshInstance ==
    /\ \A c \in 1..Len(classes) :
          LET r == call_value(Store, ClassV(c), ArgumentValues(Class_arity(Store, c)))
              new == Len(instances) + 1
              entered == InitEntered(r.st, Len(trace))
          IN /\ r.kind = "ok"
             /\ r.val = InstanceV(new)
             /\ Len(r.st.instances) = new
             /\ r.st.instances[new].class = c
             /\ SubSeq(r.st.instances, 1, Len(instances)) = instances
             /\ Cardinality(entered) = IF find_method(Store, c, "init") # 0 THEN 1 ELSE 0
             /\ \A i \in entered :
                   r.st.envs[r.st.functions[r.st.trace[i].val.n].closure].values["this"]
                      = InstanceV(new)
    /\ \A i \in 1..Len(instances) :
          find_method(Store, instances[i].class, "init") # 0 =>
             LET g == Instance_get(Store, i, "init")
                 r == call_value(g.st, g.val, ArgumentValues(arity(g.st, g.val)))
             IN /\ r.kind = "ok"
                /\ r.val = InstanceV(i)
                /\ Len(r.st.instances) = Len(instances)
    /\ (statements = ConstructorProgram /\ phase = "finished") =>
          /\ output = <<"2", "12", "30", "1", "7", "7">>
          /\ Len(instances) = 6
          /\ Cardinality({envs[1].values[v].n : v \in {"r1", "r2", "p1", "p2", "c", "e"}}) = 6
          /\ envs[1].values["again"] = envs[1].values["r1"]
          /\ Cardinality(InitEntered(Store, 0)) = 5
    /\ (statements = InitReturnProgram /\ phase = "finished") =>
          output = <<"1", "T instance", "T instance">>

\* six instances were constructed and init was called again on the first
ConstructorSeen ==
    /\ statements = ConstructorProgram
    /\ phase = "finished"
    /\ Len(instances) = 6
    /\ envs[1].values["again"] = InstanceV(1)

\* C9: binding a method to an instance adds one frame, whose parent is the
\* method's defining environment and whose only binding is `this` = the
\* instance, and one function over that frame with the same declaration;
\* every existing frame, function, class and instance stays as it was
\* (checked for every function and instance of every reachable heap).  So
\* in BindProgram(order) every bound method prints its own instance, in
\* whatever order the bindings were taken.
BindAddsOnlyThisFrame ==
    /\ \A f \in 1..Len(functions) : \A i \in 1..Len(instances) :
          LET st1 == bind(Store, f, i) IN
          /\ st1.envs = Append(envs, [enclosing |-> functions[f].closure,
                                      values |-> Put(EmptyMap, "this", InstanceV(i))])
          /\ st1.functions = Append(functions, [decl |-> functions[f].decl,
                                                closure |-> Len(envs) + 1,
                                                is_initializer |-> functions[f].is_initializer])
          /\ st1.classes = classes
          /\ st1.instances = instances
          /\ st1.output = output
    /\ \A order \in SeqsOfLen({"x", "y"}, MaxBinds) :
          (statements = BindProgram(order) /\ phase = "finished") =>
             /\ ~had_runtime_error
             /\ output = order \o <<order[1]>>

\* show was bound to x, to y and to x again, and every binding was called
BindSeen ==
    /\ \E order \in SeqsOfLen({"x", "y"}, MaxBinds) :
          /\ statements = BindProgram(order)
          /\ order[1] = "x" /\ order[2] = "y"
    /\ phase = "finished"
    /\ SubSeq(output, 1, 2) = <<"x", "y">>
    /\ output[Len(output)] = "x"

\* the class c, its superclass, the superclass of that, ...
RECURSIVE ClassChain(_)
ClassChain(c) == IF c = 0 THEN <<>> ELSE <<c>> \o ClassChain(classes[c].superclass)

\* the method `name` of the class nearest to c in its chain that has one, 0 if none has
NearestMethod(c, name) ==
    LET chain == ClassChain(c)
        having == {k \in 1..Len(chain) : name \in DOMAIN classes[chain[k]].methods}
    IN IF having = {} THEN 0
       ELSE classes[chain[CHOOSE k \in having : \A j \in having : k <= j]].methods[name]

PropertyNames ==
    {"m", "only", "f", "missing", "init", "area", "a", "n", "show", "tag", "method", "test",
     "x", "twice", "v"}

\* C10: reading a property of an instance yields the field when the field
\* table has the name (also when a method has the same name); otherwise the
\* method of the nearest class of the chain that has one, bound to the
\* instance; otherwise the error "Undefined property 'name'."; and the
\* field table of every instance stays as it was.
PropertyGetFieldThenMethod ==
    /\ \A i \in 1..Len(instances) : \A name \in PropertyNames :
          LET r == Instance_get(Store, i, name)
              m == NearestMethod(instances[i].class, name)
              new == Len(functions) + 1
          IN /\ r.st.instances = instances
             /\ IF name \in DOMAIN instances[i].fields
                THEN r = Ok(Store, instances[i].fields[name])
                ELSE IF m # 0
                THEN /\ r.kind = "ok"
                     /\ r.val = FunctionV(new)
                     /\ Len(r.st.functions) = new
                     /\ r.st.functions[new].decl = functions[m].decl
                     /\ r.st.envs[r.st.functions[new].closure]
                           = [enclosing |-> functions[m].closure,
                              values |-> Put(EmptyMap, "this", InstanceV(i))]
                ELSE r = Err(Store, "Undefined property '" \o name \o "'.")
    /\ (statements = PropertyProgram /\ phase = "finished") =>
          /\ output = <<"B.m", "A.only", "field", "1", "A.only">>
          /\ stderr = <<"Undefined property 'missing'.">>

\* the instance has the field m beside the inherited methods m and only
PropertySeen ==
    /\ statements = PropertyProgram
    /\ phase = "finished"
    /\ "m" \in DOMAIN instances[1].fields
    /\ output = <<"B.m", "A.only", "field", "1", "A.only">>


\* values of every kind: nil, booleans, numbers, strings and every function,
\* class and instance of the heap st
Values(st) ==
    {Nil, Bool(FALSE), Bool(TRUE), Num(0), Num(1), Num(2), Str(""), Str("a"), Str("b")}
        \cup Callables(st) \cup {InstanceV(i) : i \in 1..Len(st.instances)}

\* C11: `+` yields the sum of two numbers and the concatenation of two
\* strings, and for every other pair of operand kinds fails with the runtime
\* error "Operands must be two numbers or two strings."  Stated for every
\* pair of values of every reachable heap and on the run of PlusProgram.
PlusAddsConcatenatesOrFails ==
    /\ \A left \in Values(Store) : \A right \in Values(Store) :
          binary_op(Store, "+", left, right) =
             IF is_number(left) /\ is_number(right) THEN Ok(Store, Num(left.n + right.n))
             ELSE IF is_string(left) /\ is_string(right)
             THEN Ok(Store, Str(left.s \o right.s))
             ELSE Err(Store, "Operands must be two numbers or two strings.")
    /\ (statements = PlusProgram /\ phase = "finished") =>
          /\ output = <<"3", "ab">>
          /\ stderr = <<"Operands must be two numbers or two strings.">>


\* C12: equality is structural for nil, booleans, numbers and strings and
\* identity-based for functions, classes and instances: `==` yields true
\* exactly when both operands are the same value (for an object: the same
\* object), `!=` yields the opposite, so v == v is true for every value v,
\* distinct objects and values of different kinds are unequal.  Stated for
\* every pair of values of every reachable heap and on EqualityProgram.
EqualityStructuralOrIdentity ==
    /\ \A left \in Values(Store) : \A right \in Values(Store) :
          /\ binary_op(Store, "==", left, right) = Ok(Store, Bool(left = right))
          /\ binary_op(Store, "!=", left, right) = Ok(Store, Bool(left # right))
    /\ (statements = EqualityProgram /\ phase = "finished") =>
          output = <<"true", "true", "true", "false", "false", "true", "false">>


\* the left operand alone decides a logical expression: a truthy one for
\* `or`, a falsy one (nil or false) for `and`
Decided(operator, a) ==
    IF operator = "or" THEN a \notin {Nil, Bool(FALSE)} ELSE a \in {Nil, Bool(FALSE)}

\* expressions with and without an effect on the output, of every truthiness
LogicalExprs ==
    {Literal(v) : v \in LogicalOperands}
        \cup {Call(Variable(0, "print"), <<Literal(v)>>) : v \in {Nil, Str("hi")}}

\* C13: `a or b` yields a's value without evaluating b when a is truthy, and
\* b's value otherwise; `a and b` yields a's value without evaluating b when
\* a is nil or false, and b's value otherwise; the value is the operand's
\* own, not a boolean made of it, and a is evaluated exactly once.  Stated
\* for every pair of operand expressions in every reachable store (the
\* result and the store are those of evaluating a once and then, when a does
\* not decide, b once), and on the output of LogicalProgram, whose operands
\* print themselves when evaluated.
ShortCircuit ==
    /\ \A a \in LogicalExprs : \A b \in LogicalExprs : \A operator \in {"or", "and"} :
          LET Expected(ra) ==
                 IF Decided(operator, ra.val) THEN ra ELSE evaluate(ra.st, b, 1)
          IN evaluate(Store, Logical(a, operator, b), 1) = Expected(evaluate(Store, a, 1))
    /\ \A a \in LogicalOperands : \A b \in LogicalOperands : \A operator \in {"or", "and"} :
          (statements = LogicalProgram(a, operator, b) /\ phase = "finished") =>
             output = <<Display(Store, a)>>
                         \o (IF Decided(operator, a) THEN <<Display(Store, a)>>
                             ELSE <<Display(Store, b), Display(Store, b)>>)

\* a truthy left operand of `or` that is not a boolean was printed once and
\* is the result, and the right operand was never printed
ShortCircuitSeen ==
    /\ statements = LogicalProgram(Str("hi"), "or", Num(0))
    /\ phase = "finished"
    /\ output = <<"hi", "hi">>


\* the globals of Interpreter::new_with_output: the two native functions
InitialGlobals ==
    << [enclosing |-> 0,
        values |-> Put(Put(EmptyMap, "clock", NativeV("clock")), "print", NativeV("print"))] >>

\* C14: in the driver's run of one unit, once a diagnostic was reported
\* (had_error) the interpreter is never entered and has executed nothing: no
\* output is written, the globals hold their initial bindings, no function,
\* class or instance was created and no runtime error was raised
FailedUnitNotExecuted ==
    had_error =>
        /\ phase # "interpreting"
        /\ pc = 1
        /\ output = <<>>
        /\ envs = InitialGlobals
        /\ functions = <<>> /\ classes = <<>> /\ instances = <<>>
        /\ ~had_runtime_error

\* C14 witness: the unit `var a = 1; @` has a declaration that parsed, and an
\* unknown character; its run is over and `a` was never defined
FailedUnitSeen ==
    /\ scanner.source = CleanSource \o <<" ", "@">>
    /\ phase = "finished"
    /\ had_error
    /\ Len(statements) = 1 /\ statements[1].k = "VarDeclaration"
    /\ "a" \notin DOMAIN envs[1].values


\* the diagnostics of parsing the text alone
SyntaxErrorsOf(source) == parse(Parser_new(scan_tokens(source).tokens)).p.errors

\* C15: once the parser has run over two statements with a syntax error each
\* (and a good declaration after them), the error of the first and the error of
\* the second have both been reported
BothSyntaxErrorsReported ==
    \A first \in BadStatements, second \in BadStatements :
        (scanner.source = TwoErrorsSource(first, second) /\ phase \notin {"scanning", "scanned"})
            => stderr = SyntaxErrorsOf(first) \o SyntaxErrorsOf(second)


\* C16: once the parser has run over `<target> = 1;`, with left the expression
\* the target parses to and equals the position of the `=` token: a Variable
\* gives Assignment(name, 1), a Get gives Set(object, name, 1), both without a
\* diagnostic, and every other left-hand side gives no statement and the one
\* diagnostic "Invalid assignment target."; `a = b = c;` gives
\* Assignment(a, Assignment(b, c))
AssignmentByTarget ==
    /\ \A target \in AssignmentTargets :
         (scanner.source = AssignSource(target) /\ phase \notin {"scanning", "scanned"}) =>
            LET left == test_parse_expr(target).val
                equals == Len(scan_tokens(target).tokens)
            IN IF left.k = "Variable"
               THEN /\ statements = <<ExprStmt(Assignment(equals, left.name, Literal(Num(1))))>>
                    /\ ~had_error
               ELSE IF left.k = "Get"
               THEN /\ statements = <<ExprStmt(Set(left.object, left.name, Literal(Num(1))))>>
                    /\ ~had_error
               ELSE /\ statements = <<>>
                    /\ had_error
                    /\ stderr = <<"Invalid assignment target.">>
    /\ (scanner.source = AssignChainSource /\ phase \notin {"scanning", "scanned"}) =>
         /\ statements = <<ExprStmt(Assignment(2, "a", Assignment(4, "b", Variable(5, "c"))))>>
         /\ ~had_error

\* C16 witness: `a.b = 1;` was parsed to Set(a, b, 1)
AssignmentByTargetSeen ==
    /\ scanner.source = AssignSource(<<"a", ".", "b">>)
    /\ phase = "interpreting"
    /\ statements = <<ExprStmt(Set(Variable(1, "a"), "b", Literal(Num(1))))>>


\* the level of a binary operator on the precedence ladder
Level(op) ==
    CASE op \in {<<"=", "=">>, <<"!", "=">>} -> 1
      [] op \in {<<"<">>, <<"<", "=">>, <<">">>, <<">", "=">>} -> 2
      [] op \in {<<"+">>, <<"-">>} -> 3
      [] op \in {<<"*">>, <<"/">>} -> 4

\* the text of an operator
Lexeme(op) == copy_slice(op, 0, Len(op))

\* the tree of `1 op1 2 op2 3`: the tighter operator takes the middle operand,
\* and the left one takes it when the levels are equal
ChainTree(op1, op2) ==
    IF Level(op2) > Level(op1)
    THEN Binary(Literal(Num(1)), Lexeme(op1), Binary(Literal(Num(2)), Lexeme(op2), Literal(Num(3))))
    ELSE Binary(Binary(Literal(Num(1)), Lexeme(op1), Literal(Num(2))), Lexeme(op2), Literal(Num(3)))

\* expression over the scanned tokens gives the tree, reports nothing and stops
\* at the end-of-input token
ParsesTo(tree) ==
    LET r == expression(Parser_new(tokens))
    IN r.kind = "ok" /\ r.val = tree /\ r.p.errors = <<>> /\ r.p.current = Len(tokens) - 1

\* C17: once the scanner is through a chain of binary operators, the parser's
\* expression is the tree of the precedence ladder equality < comparison <
\* term < factor < unary, equal levels grouped to the left; a unary operator
\* binds its operand before any binary operator, and a parenthesised
\* expression is one Grouping operand
PrecedenceLadder ==
    phase # "scanning" =>
        /\ \A op1 \in BinaryOperators, op2 \in BinaryOperators :
             scanner.source = ChainSource(op1, op2) => ParsesTo(ChainTree(op1, op2))
        /\ \A u \in {"-", "!"}, op \in BinaryOperators :
             scanner.source = UnaryChainSource(u, op)
                => ParsesTo(Binary(Unary(u, Literal(Num(1))), Lexeme(op), Literal(Num(2))))
        /\ scanner.source = GroupingSource
             => ParsesTo(Binary(Grouping(Binary(Literal(Num(1)), "+", Literal(Num(2)))),
                                "*", Literal(Num(3))))

\* C17 witness: `1+2*3` was scanned and parses to Binary(1, +, Binary(2, *, 3))
PrecedenceLadderSeen ==
    /\ scanner.source = ChainSource(<<"+">>, <<"*">>)
    /\ phase = "scanned"
    /\ expression(Parser_new(tokens)).val
         = Binary(Literal(Num(1)), "+", Binary(Literal(Num(2)), "*", Literal(Num(3))))


\* a call of the native print with the text
PrintCall(text) == Call(Variable(0, "print"), <<Literal(Str(text))>>)

\* C18: once the scanner is through `2 < 3 ? 4 : 5` nothing was reported and
\* the parser's expression is Ternary(Binary(2, <, 3), 4, 5); and evaluating
\* a Ternary runs the branch the condition selects and not the other one
TernaryScansParsesEvaluates ==
    /\ (scanner.source = TernarySource /\ phase = "scanned") =>
          /\ ~had_error
          /\ ParsesTo(Ternary(Binary(Literal(Num(2)), "<", Literal(Num(3))),
                              Literal(Num(4)), Literal(Num(5))))
    /\ \A condition \in LogicalOperands :
          evaluate(Store, Ternary(Literal(condition), PrintCall("then"), PrintCall("else")), 1).st.output
             = Append(output, IF is_truthy(condition) THEN "then" ELSE "else")


\* the characters no arm of scan_token takes, among those of the sources
UnknownCharacters == {"@", "?", ":", "_"}

\* the text with a blank in place of every unknown character
Blanked(source) ==
    [i \in 1..Len(source) |-> IF source[i] \in UnknownCharacters THEN " " ELSE source[i]]

\* the text has a double quote at one of the 0-based positions from..
QuoteFrom(source, from) == \E i \in (from + 1)..Len(source) : source[i] = "\""

\* a scan step that starts at an unknown character reports it once, yields no
\* token, moves one character on and leaves the scanner running
UnknownCharacterStep ==
    (phase = "scanning" /\ ScanTokens_peek(scanner) \in UnknownCharacters) =>
        /\ stderr' = Append(stderr, "Unexpected character")
        /\ had_error'
        /\ tokens' = tokens
        /\ scanner'.current = scanner.current + 1
        /\ phase' = "scanning"

\* a scan step that starts at a double quote with no other after it reports the
\* open string once, yields no token and leaves the scanner running at the end
UnterminatedStringStep ==
    (phase = "scanning" /\ ScanTokens_peek(scanner) = "\""
        /\ ~QuoteFrom(scanner.source, scanner.current + 1)) =>
        /\ stderr' = Append(stderr, "Unterminated string")
        /\ had_error'
        /\ tokens' = tokens
        /\ scanner'.current = Len(scanner.source)
        /\ phase' = "scanning"

\* the scan of a text without strings is over: one diagnostic per unknown
\* character, and the tokens are those of the text without them, the
\* end-of-input token last
SkippedTokensKept ==
    (phase = "scanned" /\ ~QuoteFrom(scanner.source, 0)) =>
        /\ tokens = scan_tokens(Blanked(scanner.source)).tokens
        /\ tokens[Len(tokens)].kind = Kind("Eof")
        /\ Len(SelectSeq(stderr, LAMBDA message : message = "Unexpected character"))
              = Len(SelectSeq(scanner.source, LAMBDA c : c \in UnknownCharacters))
        /\ had_error = (stderr # <<>>)

\* C19: at an unknown character or an unterminated string the scanner reports
\* one diagnostic, sets had_error, emits no token and goes on scanning; the
\* tokens of a text with unknown characters are those of the text without
\* them, in the same order and ended by the end-of-input token
ScanErrorsSkipped ==
    /\ [][UnknownCharacterStep /\ UnterminatedStringStep]_vars
    /\ []SkippedTokensKept

\* C19 witness: `@1;` was scanned to the number, the semicolon and the
\* end-of-input token, with one diagnostic
ScanErrorsSkippedSeen ==
    /\ scanner.source = <<"@", "1", ";">>
    /\ phase = "scanned"
    /\ Len(tokens) = 3
    /\ tokens[1].lexeme = "1"
    /\ stderr = <<"Unexpected character">>


\* the end-of-input tokens among the tokens collected so far
EofTokens == SelectSeq(tokens, LAMBDA token : token.kind = Kind("Eof"))

\* a scan step before the end of the text moves the position forward
ScanAdvances ==
    (phase = "scanning" /\ ~ScanTokens_is_at_end(scanner))
        => scanner'.current > scanner.current

\* the position stays within the text and end-of-input is yielded at most once
ScanBounded ==
    /\ scanner.current <= Len(scanner.source)
    /\ Len(EofTokens) <= 1

\* collect is over: end-of-input is the last token and the only one of its
\* kind, and one more call of next yields nothing and leaves the scanner as
\* it is
ScanEnded ==
    phase # "scanning" =>
        /\ tokens # <<>>
        /\ tokens[Len(tokens)].kind = Kind("Eof")
        /\ Len(EofTokens) = 1
        /\ ScanTokens_next(scanner, <<>>) = Scanned(scanner, <<>>, <<>>)

\* C20: for every source text the token iterator comes to an end; its last
\* token is end-of-input, yielded exactly once, and every later call of next
\* yields nothing; the scan position never exceeds the length of the text and
\* grows with every scan step before the end
ScanTerminates ==
    /\ [][ScanAdvances]_vars
    /\ []ScanBounded
    /\ []ScanEnded
    /\ <>(phase # "scanning")

\* C20 witness: the scan of the text holding only an open block comment is
\* over with the end-of-input token alone
ScanTerminatesSeen ==
    /\ scanner.source = <<"/", "*", " ", "o", "p", "e", "n">>
    /\ phase = "scanned"
    /\ Len(tokens) = 1
    /\ tokens[1].kind = Kind("Eof")
    /\ scanner.consumed


\* the slice of the text the scanner has just gone over
ScannedSlice(sc) == SubSeq(sc.source, sc.start + 1, sc.current)

\* scanning the text alone gives one token of the kind and with the lexeme of
\* token, then end-of-input, and reports nothing
RescansTo(text, token) ==
    LET r == scan_tokens(text)
    IN /\ r.errors = <<>>
       /\ Len(r.tokens) = 2
       /\ r.tokens[1].kind = token.kind
       /\ r.tokens[1].lexeme = token.lexeme
       /\ r.tokens[2].kind = Kind("Eof")

\* a scan step that yields a token other than end-of-input: its lexeme is the
\* slice just scanned, and the slice scanned alone gives the token again
RescanStep ==
    (phase = "scanning" /\ tokens' # tokens /\ tokens'[Len(tokens')].kind # Kind("Eof")) =>
        /\ tokens'[Len(tokens')].lexeme = copy_slice(scanner'.source, scanner'.start, scanner'.current)
        /\ RescansTo(ScannedSlice(scanner'), tokens'[Len(tokens')])

\* C21: for every token the scanner emits other than end-of-input, scanning
\* the token's lexeme on its own emits exactly one token before end-of-input,
\* of the same kind (and number value or string content), with no diagnostic
LexemeRescans == [][RescanStep]_vars

\* C21 witness: the scanner has emitted the number 10.50 (value 10, fraction
\* 5) as the seventh token of the text of numbers
LexemeRescansSeen ==
    /\ phase = "scanning"
    /\ Len(tokens) = 7
    /\ tokens[7].kind = NumberKind(10, "5")
    /\ tokens[7].lexeme = "10.50"
    /\ RescansTo(ScannedSlice(scanner), tokens[7])


\* C22: once the resolver has run over a program with `this` or `super`
\* outside every class (at top level, in a block, in a plain function), a
\* diagnostic was reported and the program is marked as failed
ThisSuperOutsideClassRejected ==
    \A expr \in OutsideClassExprs, place \in OutsideClassPlaces :
        (statements = OutsideClassProgram(expr, place) /\ phase # "parsed")
            => had_error /\ stderr # <<>>


\* the diagnostics about `return` among those reported
ReturnDiagnostics ==
    SelectSeq(stderr, LAMBDA message :
        message \in {"Can't return from top-level code.",
                     "Can't return a value from an initializer."})

\* C23: once the resolver has run, a `return` was reported exactly when it is
\* inside no function or method, or carries a value with init as innermost
\* function: a bare return in init and a valued return in a function nested
\* in init are accepted, and a return after a function declaration (at top
\* level, or in init) is judged by the kind that encloses the declaration
ReturnRejectedExactly ==
    \A place \in ReturnPlaces, valued \in BOOLEAN :
        (statements = ReturnPlaceProgram(place, valued) /\ phase # "parsed") =>
            /\ ReturnDiagnostics =
                 (IF place \in {"top", "block", "after function"}
                  THEN <<"Can't return from top-level code.">>
                  ELSE IF place \in {"init", "init after nested"} /\ valued
                  THEN <<"Can't return a value from an initializer.">>
                  ELSE <<>>)
            /\ had_error = (stderr # <<>>)
            /\ place \in {"function", "method", "literal in init"} => ~had_error

\* C23 witness: the resolver went through init with a nested function that
\* returns a value and a valued return after it, and reported the second only
ReturnRejectedSeen ==
    /\ statements = ReturnPlaceProgram("init after nested", TRUE)
    /\ phase = "resolved"
    /\ ReturnDiagnostics = <<"Can't return a value from an initializer.">>


\* the redeclaration diagnostics among those reported
RedeclareDiagnostics ==
    SelectSeq(stderr, LAMBDA message :
        message = "Already a variable with this name in this scope.")

\* C24: once the resolver has run, "Already a variable with this name in this
\* scope." was reported once for every declaration (variable, parameter,
\* class name, function name) of a name the innermost scope already holds,
\* and not for a second declaration at global level or for a name held by an
\* outer or a closed scope only; a named function after a variable of its
\* name declares the name twice more, as variable and as function name
RedeclarationReported ==
    \A case \in DeclareCases :
        (statements = DeclareProgram(case) /\ phase # "parsed") =>
            /\ Len(RedeclareDiagnostics) =
                 (IF case \in {"variables", "parameters", "parameter and local", "classes",
                               "variable and class"} THEN 1
                  ELSE IF case = "variable and function" THEN 2
                  ELSE 0)
            /\ stderr = RedeclareDiagnostics
            /\ had_error = (stderr # <<>>)

\* C24 witness: the resolver went through a function literal with a parameter
\* and a local variable of the same name and reported the local
RedeclarationSeen ==
    /\ statements = DeclareProgram("parameter and local")
    /\ phase = "resolved"
    /\ had_error
    /\ stderr = <<"Already a variable with this name in this scope.">>


\* the scope stacks of up to three scopes over two names
ScopeStacks ==
    LET Scopes == {EmptyMap, Put(EmptyMap, "a", TRUE), Put(EmptyMap, "b", FALSE),
                   Put(Put(EmptyMap, "a", FALSE), "b", TRUE)}
    IN UNION {SeqsOfLen(Scopes, n) : n \in 0..3}

\* the number of scopes between the innermost scope and the nearest one that
\* holds the name; -1 when no scope holds it
Distance(scopes, name) ==
    LET holding == {d \in 0..(Len(scopes) - 1) : name \in DOMAIN scopes[Len(scopes) - d]}
    IN IF holding = {} THEN -1
       ELSE CHOOSE d \in holding : \A e \in holding : d <= e

\* a resolver at the scope stack, with the distance map of the interpreter
ResolverAt(scopes) ==
    [scopes |-> scopes, current_function |-> "None", current_class |-> "None",
     locals |-> locals, had_error |-> FALSE, diagnostics |-> <<>>]

\* C25: resolve_local at any scope stack records for the expression the
\* distance to the nearest scope holding the name, as its one entry, and
\* records nothing when no scope holds the name; the resolver leaves in the
\* map exactly these distances for the variables, assignments, `this` and
\* `super` of a program; and resolving a program a second time leaves the
\* map as it is
DistanceRecorded ==
    /\ \A scopes \in ScopeStacks, name \in {"a", "b"} :
          resolve_local(ResolverAt(scopes), 99, name).locals =
             (IF Distance(scopes, name) = -1 THEN locals
              ELSE [id \in DOMAIN locals \cup {99} |->
                       IF id = 99 THEN Distance(scopes, name) ELSE locals[id]])
    /\ (statements = DistanceProgram /\ phase # "parsed") =>
          locals = [id \in {1, 2, 4, 5, 7, 8, 9, 10, 11, 12} |->
                       CASE id \in {2, 5, 7} -> 0
                         [] id \in {1, 4, 9, 10, 12} -> 1
                         [] id \in {8, 11} -> 2]
    /\ phase # "parsed" => resolve_stmts(ResolverAt(<<>>), statements).locals = locals

\* C25 witness: the resolver went through the program of distances; the
\* variable a inside the function literal is two scopes away, `super` two,
\* and the global g has no entry
DistanceRecordedSeen ==
    /\ statements = DistanceProgram
    /\ phase = "resolved"
    /\ locals[8] = 2 /\ locals[11] = 2
    /\ 3 \notin DOMAIN locals /\ 6 \notin DOMAIN locals


\* the frames from env to the globals, along the parent links
RECURSIVE Chain(_)
Chain(env) == IF env = 0 THEN <<>> ELSE <<env>> \o Chain(envs[env].enclosing)

\* the names some frame binds, and one that none binds
FrameNames == UNION {DOMAIN envs[env].values : env \in 1..Len(envs)} \cup {"undefined"}

\* the frame of the chain nearest to its head that binds the name; 0 if none
Nearest(chain, name) ==
    LET binding == {i \in 1..Len(chain) : name \in DOMAIN envs[chain[i]].values}
    IN IF binding = {} THEN 0
       ELSE chain[CHOOSE i \in binding : \A j \in binding : i <= j]

\* the store with name bound to value in the frame, nothing else changed
Rebound(frame, name, value) ==
    [Store EXCEPT !.envs = [envs EXCEPT ![frame].values =
        [x \in DOMAIN envs[frame].values \cup {name} |->
            IF x = name THEN value ELSE envs[frame].values[x]]]]

\* C26: in every store the interpreter reaches, for every frame, distance d
\* within its chain and name: get_at gives the binding of the frame d parent
\* links up, whatever nearer frames bind; assing_at rebinds the name in that
\* frame and changes no other frame; get and assign act on the nearest frame
\* of the chain that binds the name, and fail with "Undefined variable",
\* changing nothing, when none binds it
FrameAtDistance ==
    \A env \in 1..Len(envs), name \in FrameNames :
       LET chain == Chain(env)
           nearest == Nearest(chain, name)
       IN /\ \A d \in 0..(Len(chain) - 1) :
               /\ name \in DOMAIN envs[chain[d + 1]].values =>
                     get_at(Store, env, d, name) = Ok(Store, envs[chain[d + 1]].values[name])
               /\ assing_at(Store, env, d, name, Str("new"))
                     = Ok(Rebound(chain[d + 1], name, Str("new")), Nil)
          /\ Environment_get(Store, env, name) =
                (IF nearest = 0 THEN Err(Store, "Undefined variable '" \o name \o "'.")
                 ELSE Ok(Store, envs[nearest].values[name]))
          /\ Environment_assign(Store, env, name, Str("new")) =
                (IF nearest = 0 THEN Err(Store, "Undefined variable '" \o name \o "'.")
                 ELSE Ok(Rebound(nearest, name, Str("new")), Nil))

\* C26 witness: a frame and its parent bind the same name to different
\* values, and get_at with distance 1 gives the parent's
FrameAtDistanceSeen ==
    \E env \in 1..Len(envs) :
       /\ envs[env].enclosing # 0
       /\ \E name \in DOMAIN envs[env].values :
             /\ name \in DOMAIN envs[envs[env].enclosing].values
             /\ envs[envs[env].enclosing].values[name] # envs[env].values[name]
             /\ get_at(Store, env, 1, name).val = envs[envs[env].enclosing].values[name]
             /\ get_at(Store, env, 0, name).val = envs[env].values[name]


\* the expression is a call of the named function
IsCall(expr, name) ==
    expr.k = "Call" /\ expr.callee.k = "Variable" /\ expr.callee.name = name

\* the statement appends the letter to the text t
AppendsTo(stmt, letter) ==
    /\ stmt.k = "Expr" /\ stmt.expr.k = "Assignment" /\ stmt.expr.name = "t"
    /\ stmt.expr.value.k = "Binary" /\ stmt.expr.value.right = Literal(Str(letter))

\* the fifth statement is the rewritten loop: Block[init, While(cond,
\* Block[body, Expr(incr)])], without the outer block when there is no
\* initializer, without the inner one when there is no increment, and with
\* the literal true when there is no condition
ForRewritten(init, cond, incr) ==
    LET for == statements[5]
        while == IF init THEN for.stmts[2] ELSE for
        inner == while.body
        body == IF incr THEN inner.stmts[1] ELSE inner
    IN /\ Len(statements) = 5
       /\ init => (for.k = "Block" /\ Len(for.stmts) = 2 /\ AppendsTo(for.stmts[1], "i"))
       /\ while.k = "While"
       /\ IF cond THEN IsCall(while.condition, "c") ELSE while.condition = Literal(Bool(TRUE))
       /\ incr => /\ inner.k = "Block" /\ Len(inner.stmts) = 2
                  /\ inner.stmts[2].k = "Expr" /\ IsCall(inner.stmts[2].expr, "s")
       /\ body.k = "Block"
       /\ Len(body.stmts) = 1 + (IF incr THEN 0 ELSE 1) + (IF cond THEN 0 ELSE 1)
       /\ AppendsTo(body.stmts[1], "b")

\* the letters the run appends to t: the initializer once, then the
\* condition before every run of the body and the increment after it
ForTrace(init, cond, incr) ==
    (IF init THEN "i" ELSE "")
        \o (IF cond THEN (IF incr THEN "cbscbsc" ELSE "cbcbc")
            ELSE (IF incr THEN "bsbsb" ELSE "bb"))

\* C27: the parser rewrites the for loop into Block[init, While(cond,
\* Block[body, Expr(incr)])], dropping the outer block without initializer,
\* the inner one without increment, and taking true without condition; the
\* run of the rewritten tree does the initializer once, the condition before
\* every iteration and the increment after the body, before the next test
ForDesugared ==
    \A init \in BOOLEAN, cond \in BOOLEAN, incr \in BOOLEAN :
        scanner.source = ForSource(init, cond, incr) =>
            /\ phase \in {"interpreting", "finished"} =>
                  ~had_error /\ ForRewritten(init, cond, incr)
            /\ phase # "panicked"
            /\ phase = "finished" =>
                  /\ envs[1].values["t"] = Str(ForTrace(init, cond, incr))
                  /\ envs[1].values["n"] = Num(2)
                  /\ stderr = IF cond THEN <<>>
                              ELSE <<"Operands must be two numbers or two string.">>

\* C27 witness: the loop with initializer, condition and increment has run
\* two iterations
ForDesugaredSeen ==
    /\ scanner.source = ForSource(TRUE, TRUE, TRUE)
    /\ phase = "finished"
    /\ statements[5].k = "Block"
    /\ envs[1].values["t"] = Str("icbscbsc")


\* what one submission does to the global bindings and the output
Submitted(line, g, g2) ==
    LET Unchanged == g2 = g /\ output' = output
        Counted ==
           IF "n" \in DOMAIN g /\ g["n"].t = "num"
           THEN /\ g2 = Put(g, "n", Num(g["n"].n + 1))
                /\ output' = Append(output, Display(Store, Num(g["n"].n + 1)))
           ELSE Unchanged
    IN /\ line = ReplLine.declare_a => g2 = Put(g, "a", Num(1)) /\ output' = output
       /\ line = ReplLine.declare_n => g2 = Put(g, "n", Num(0)) /\ output' = output
       /\ line = ReplLine.read_a =>
             /\ g2 = g
             /\ output' = IF "a" \in DOMAIN g THEN Append(output, Display(Store, g["a"]))
                          ELSE output
       /\ line = ReplLine.difference => g2 = g /\ output' = Append(output, "1")
       /\ line \in {ReplLine.count, ReplLine.count_statement, ReplLine.count_unknown} =>
             Counted
       /\ line \in {ReplLine.syntax_error, ReplLine.runtime_error} => Unchanged

\* one submission: it ends at the prompt with both flags false, keeps every
\* global binding it does not itself write, and does its own effect once
SubmissionStep ==
    pc' = pc + 1 =>
        /\ phase' = "prompt"
        /\ ~had_error' /\ ~had_runtime_error'
        /\ DOMAIN envs[1].values \subseteq DOMAIN envs'[1].values
        /\ Len(output') <= Len(output) + 1
        /\ Submitted(scanner'.source, envs[1].values, envs'[1].values)

AcceptedProgramNeverPanics ==
    (phase # "parsed" /\ ~had_error) => phase # "panicked"

\* C30: once the resolver has run over a program with a single named
\* function declared inside a block or a function body, no redeclaration
\* was reported and had_error is false
SingleFunctionAccepted ==
    \A place \in SingleFunctionPlaces :
        (statements = SingleFunctionProgram(place) /\ phase # "parsed")
            => ~had_error /\ RedeclareDiagnostics = <<>>

====
